---- MODULE Spec2Model ----
(***************************************************************************)
(* A model of pykubegrader's telemetry / validation pipeline:              *)
(*   - validate.py   validate_logfile, login_, submission_message          *)
(*   - telemetry.py  telemetry, encrypt_to_b64, log_encrypted,             *)
(*                   ensure_responses, update_responses                    *)
(*                                                                         *)
(* A decrypted log line is modelled by the list of its comma-separated,    *)
(* stripped parts (what entry.split(",") followed by strip() yields).      *)
(* Each part is a token that keeps what the code's regular expressions,    *)
(* int() and strptime() calls can tell apart.                              *)
(***************************************************************************)
EXTENDS Integers, Sequences, FiniteSets, TLC

(***************************************************************************)
(* Tokens: the parts of a cleartext line.                                  *)
(***************************************************************************)
\* a word such as "info", "assignment", "Ada"
Word(s) == [k |-> "word", s |-> s, n |-> 0, m |-> 0]
\* an integer literal, accepted by int()
Num(i) == [k |-> "int", s |-> "", n |-> i, m |-> 0]
\* a timestamp "%Y-%m-%d %H:%M:%S", accepted by strptime(); n counts seconds
Time(t) == [k |-> "time", s |-> "", n |-> t, m |-> 0]
\* the label "q{n}_{m}"
QKey(n, m) == [k |-> "qkey", s |-> "", n |-> n, m |-> m]
\* a label "q{n}_note": q, digits, underscore, then something that is no number
QNote(n) == [k |-> "qnote", s |-> "", n |-> n, m |-> 0]
\* the part "code run: <cell source>"
CodeRun == [k |-> "code", s |-> "", n |-> 0, m |-> 0]

(***************************************************************************)
(* Generic helpers.                                                        *)
(***************************************************************************)
Range(seq) == {seq[i] : i \in 1..Len(seq)}

Last(seq) == seq[Len(seq)]

RECURSIVE SeqsUpTo(_, _)
SeqsUpTo(S, len) ==
    IF len = 0 THEN {<<>>}
    ELSE LET shorter == SeqsUpTo(S, len - 1)
         IN  shorter \cup {Append(q, x) : q \in {r \in shorter : Len(r) = len - 1}, x \in S}

SetMax(S) == CHOOSE x \in S : \A y \in S : y <= x

SetMin(S) == CHOOSE x \in S : \A y \in S : x <= y

RECURSIVE SetSum(_, _)
SetSum(f, S) ==
    IF S = {} THEN 0
    ELSE LET x == CHOOSE y \in S : TRUE
         IN  f[x] + SetSum(f, S \ {x})

\* sorted(keys): the ascending list of a finite set of integers
RECURSIVE Sorted(_)
Sorted(S) ==
    IF S = {} THEN <<>>
    ELSE LET lo == SetMin(S) IN <<lo>> \o Sorted(S \ {lo})

(***************************************************************************)
(* Python dicts that keep insertion order: a list of [key, val] records    *)
(* with pairwise different keys.                                           *)
(***************************************************************************)
DictKeys(d) == {d[i].key : i \in 1..Len(d)}

DictGet(d, key) == (CHOOSE i \in 1..Len(d) : d[i].key = key)

DictVal(d, key) == d[DictGet(d, key)].val

(***************************************************************************)
(* validate_logfile: the pure parts.                                       *)
(***************************************************************************)
\* validate.py 58: re.match(r"info,", entry) or re.match(r"q\d+_\d+,", entry)
IsRelevant(entry) ==
    /\ Len(entry) >= 2
    /\ (entry[1] = Word("info") \/ entry[1].k = "qkey")

\* validate.py 55-59: data_reduced
ReduceData(data) == SelectSeq(data, IsRelevant)

\* a variant of IsInfoRecord that does not look at the number of parts
IsInfoLine(parts) == parts[1] = Word("info")

\* validate.py 74: parts[0] == "info" and len(parts) == 4
IsInfoRecord(parts) == parts[1] = Word("info") /\ Len(parts) = 4

\* a variant of LastEntries in which the first occurrence of a field wins
RECURSIVE FirstEntries(_)
FirstEntries(reduced) ==
    IF reduced = <<>> THEN <<>>
    ELSE LET prev  == FirstEntries(SubSeq(reduced, 1, Len(reduced) - 1))
             parts == Last(reduced)
         IN  IF IsInfoRecord(parts) /\ parts[2] \notin DOMAIN prev
             THEN [f \in (DOMAIN prev) \cup {parts[2]} |->
                      IF f = parts[2] THEN parts[3] ELSE prev[f]]
             ELSE prev

\* validate.py 71-77: last_entries, a dict from field name to field value
RECURSIVE LastEntries(_)
LastEntries(reduced) ==
    IF reduced = <<>> THEN <<>>
    ELSE LET prev  == LastEntries(SubSeq(reduced, 1, Len(reduced) - 1))
             parts == Last(reduced)
         IN  IF IsInfoRecord(parts)
             THEN [f \in (DOMAIN prev) \cup {parts[2]} |->
                      IF f = parts[2] THEN parts[3] ELSE prev[f]]
             ELSE prev

\* a variant of AssignmentMismatch that compares only an assignment that is there
AssignmentDiffers(entries, id) ==
    /\ Word("assignment") \in DOMAIN entries
    /\ Word(id) # entries[Word("assignment")]

\* a variant of AssignmentMismatch that only asks for an assignment entry
AssignmentMissing(entries, id) == Word("assignment") \notin DOMAIN entries

\* validate.py 83: the condition of the sys.exit
AssignmentMismatch(entries, id) ==
    \/ Word("assignment") \notin DOMAIN entries
    \/ Word(id) # entries[Word("assignment")]

\* validate.py 88
required_student_info ==
    <<Word("drexel_id"), Word("first_name"), Word("last_name"), Word("drexel_email")>>

\* a variant of StudentInfoMissing that stops before the last field
StudentInfoMissingButLast(entries) ==
    \E i \in 1..(Len(required_student_info) - 1) :
        required_student_info[i] \notin DOMAIN entries

\* validate.py 90-94: some last_entries.get(field) is None
StudentInfoMissing(entries) ==
    \E i \in 1..Len(required_student_info) :
        required_student_info[i] \notin DOMAIN entries

\* validate.py 103: "code run:" in entry
HasCodeRun(entry) == \E i \in 1..Len(entry) : entry[i].k = "code"

NoCodeRun(entry) == ~HasCodeRun(entry)

\* validate.py 97-106: data, the entries that are no code-run records
SplitData(data) == SelectSeq(data, NoCodeRun)

\* validate.py 115: strptime(row.split(",")[-1].strip(), ...) raises ValueError
\* unless the last part is a timestamp
TimestampParses(row) == Last(row).k = "time"

\* a variant of Timestamps that reads the first and the last line only
FirstAndLastTimestamps(reduced) == <<Last(reduced[1]).n, Last(Last(reduced)).n>>

\* validate.py 114-117: the parsed timestamps (seconds)
Timestamps(reduced) == [i \in 1..Len(reduced) |-> Last(reduced[i]).n]

\* a variant of GetLastEntry that walks the list from its start
GetFirstEntry(data, field_name) ==
    LET hits == {i \in 1..Len(data) : data[i][1] = field_name}
    IN  IF hits = {} THEN <<>> ELSE data[SetMin(hits)]

\* validate.py 135-140: get_last_entry; "" is the empty list of parts
GetLastEntry(data, field_name) ==
    LET hits == {i \in 1..Len(data) : data[i][1] = field_name}
    IN  IF hits = {} THEN <<>> ELSE data[SetMax(hits)]

\* validate.py 157: entry.startswith(f"q{question_number}_")
StartsWithQ(entry, question_number) ==
    entry[1].k \in {"qkey", "qnote"} /\ entry[1].n = question_number

\* validate.py 142-164: get_len_of_entries; parts[0].split("_")[1] is the text
\* after the underscore: the digits of a q{N}_{M} label, "note" of q{N}_note
GetLenOfEntries(data, question_number) ==
    LET unique_qN_values ==
            {<<data[i][1].k, data[i][1].m>> :
                i \in {j \in 1..Len(data) : StartsWithQ(data[j], question_number)}}
    IN  Cardinality(unique_qN_values) + 1

\* validate.py 167-173: free_response
IsFreeResponse(entry, frq) ==
    entry[1].k \in {"qkey", "qnote"} /\ entry[1].n > frq

FreeResponse(data, frq) ==
    LET Keep(entry) == IsFreeResponse(entry, frq)
    IN  SelectSeq(data, Keep)

\* validate.py 181-185: the entries of question i, for j in range(1, len)
RECURSIVE EntriesOfQuestion(_, _, _, _)
EntriesOfQuestion(data, i, j, stop) ==
    IF j >= stop THEN <<>>
    ELSE LET entry == GetLastEntry(data, QKey(i, j))
         IN  (IF entry # <<>> THEN <<entry>> ELSE <<>>)
                 \o EntriesOfQuestion(data, i, j + 1, stop)

\* validate.py 176-188: the loop over range(1, free_response_questions + 1)
RECURSIVE StructuredEntries(_, _, _)
StructuredEntries(data, i, frq) ==
    IF i > frq THEN <<>>
    ELSE EntriesOfQuestion(data, i, 1, GetLenOfEntries(data, i))
             \o StructuredEntries(data, i + 1, frq)

\* validate.py 176-190: q_entries
QEntries(all_data, data, frq) ==
    StructuredEntries(data, 1, frq) \o FreeResponse(all_data, frq)

\* validate.py 205: int(score_entry[1]) raises IndexError on a line of one part
\* and ValueError on a part that is no integer literal
ScoreParses(row) == Len(row) >= 2 /\ row[2].k = "int"

\* validate.py 197
UniqueQuestionIDs(parsed_data) == {parsed_data[i][1] : i \in 1..Len(parsed_data)}

\* a variant of MaxScores that stores every score it meets
LastScores(parsed_data) ==
    [u \in UniqueQuestionIDs(parsed_data) |->
        parsed_data[SetMax({j \in 1..Len(parsed_data) : parsed_data[j][1] = u})][2].n]

\* validate.py 200-209: max_scores, starting from 0 for every id
MaxScores(parsed_data) ==
    [u \in UniqueQuestionIDs(parsed_data) |->
        SetMax({0} \cup {parsed_data[i][2].n :
                    i \in {j \in 1..Len(parsed_data) : parsed_data[j][1] = u}})]

\* validate.py 214: int(unique_value.split("_")[0][1:])
QuestionNumber(unique_value) == unique_value.n

\* validate.py 215: question_scores[question_number] raises KeyError
ScoreKeyError(max_scores, rubric) ==
    \E u \in DOMAIN max_scores : QuestionNumber(u) \notin DictKeys(rubric)

\* validate.py 67, 212-215: question_scores, in the rubric's order
QuestionScores(max_scores, rubric) ==
    [i \in 1..Len(rubric) |->
        [key |-> rubric[i].key,
         val |-> SetSum(max_scores,
                        {u \in DOMAIN max_scores : QuestionNumber(u) = rubric[i].key})]]

\* a variant of SortDict that keeps the order of insertion
KeepOrder(d) == d

\* validate.py 218-226: {key: int(np.round(d[key])) for key in sorted(d)};
\* the values are integers, which np.round leaves alone
SortDict(d) ==
    LET keys == Sorted(DictKeys(d))
    IN  [i \in 1..Len(keys) |-> [key |-> keys[i], val |-> DictVal(d, keys[i])]]

\* validate.py 236: f"Question {question_number}"
QuestionName(question_number) == [text |-> "Question ", n |-> question_number]

\* a variant of BuildTests that reports at most max_score
CappedTests(scores, maxima) ==
    [i \in 1..Len(scores) |->
        [name      |-> QuestionName(scores[i].key),
         score     |-> SetMin({scores[i].val, DictVal(maxima, scores[i].key)}),
         max_score |-> DictVal(maxima, scores[i].key)]]

\* validate.py 229-242: result_structure["tests"]
BuildTests(scores, maxima) ==
    [i \in 1..Len(scores) |->
        [name      |-> QuestionName(scores[i].key),
         score     |-> scores[i].val,
         max_score |-> DictVal(maxima, scores[i].key)]]
\* validate.py 52-247: how a run over the decrypted lines data ends, the
\* exception or sys.exit that ends it or the report it builds
Verdict(data, id, rubric, frq) ==
    LET reduced == ReduceData(data)
        entries == LastEntries(reduced)
        kept    == QEntries(data, SplitData(data), frq)
        Ends(kind) == [error |-> kind, tests |-> <<>>]
    IN  IF AssignmentMismatch(entries, id)
        THEN Ends("SystemExit: not the correct assignment")
        ELSE IF StudentInfoMissing(entries)
        THEN Ends("SystemExit: submit your student information")
        ELSE IF \E i \in 1..Len(reduced) : ~TimestampParses(reduced[i])
        THEN Ends("ValueError: time data")
        ELSE IF \E i \in 1..Len(kept) : ~ScoreParses(kept[i])
        THEN Ends("ValueError: invalid literal for int()")
        ELSE IF ScoreKeyError(MaxScores(kept), rubric)
        THEN Ends("KeyError")
        ELSE [error |-> "none",
              tests |-> BuildTests(SortDict(QuestionScores(MaxScores(kept), rubric)),
                                   SortDict(rubric))]

\* validate.py 122-123: round(delta.total_seconds() / 60, 2), in hundredths of
\* a minute; 5 * delta / 3 is never half-way between two integers
MinutesRounded(delta) == (10 * delta + 3) \div 6

(***************************************************************************)
(* The state.                                                              *)
(***************************************************************************)
VARIABLES
    \* validate_logfile: its inputs
    encrypted_lines,          \* the lines of the log file at filepath
    assignment_id,
    question_max_scores,      \* the rubric, a dict
    free_response_questions,
    \* validate_logfile: its locals and effects
    pc,                       \* the position of the run
    data_,                    \* the decrypted lines
    data_reduced,
    last_entries,
    q_entries,
    max_scores,
    question_scores,
    tests,                    \* result_structure["tests"]
    files,                    \* the files the run has written
    requests,                 \* the HTTP requests the run has sent, with their outcome
    error,                    \* how the run ended, if it aborted
    \* the response store: ensure_responses and update_responses
    fs,                       \* the content of .responses.json and .responses.tmp
    upc,                      \* the position of the call, "idle" between calls
    op,                       \* the function that was called
    arg_key,                  \* the arguments of update_responses
    arg_value,
    local_data,               \* the local dict data
    returned,                 \* what the last call returned
    before,                   \* .responses.json when the call started
    crashed_at,               \* the position at which the process stopped
    \* the encrypted event logger
    key_files,                \* the state of the key files the logger reads
    output_log,               \* the lines of .output.log
    outcome,                  \* how the last call of the logger ended
    \* the construction of a question widget
    widget,                   \* the class that is constructed
    shuffled,                 \* shuffle_questions / shuffle_options was called
    layout,                   \* the layout was built or displayed
    \* one event on its way from log_encrypted to validate_logfile
    cleartext,                \* the cleartext of the event
    nonce,                    \* the nonce box.encrypt draws
    reader_keys,              \* the keys the reading side builds its box from
    log_line,                 \* the line of .output.log
    decrypted,                \* what the reading side gets
    cpc,                      \* the position of the event
    \* the notebook: initialize_assignment and the submit handlers
    hash_salt,                \* the salt of str hashes of the kernel process
    jhub_user,                \* the environment variable JUPYTERHUB_USER
    seeds,                    \* the seeds initialize_assignment has stored
    selections,               \* the values of self.widgets of a SelectQuestion
    display,                  \* widget_pairs, the pairs in the order of the layout
    form,                     \* what the identity form and the host hold
    last_call                 \* the handler that ran last and how it ended

vvars == <<encrypted_lines, assignment_id, question_max_scores,
           free_response_questions, pc, data_, data_reduced, last_entries,
           q_entries, max_scores, question_scores, tests, files, requests, error>>

svars == <<fs, upc, op, arg_key, arg_value, local_data, returned, before, crashed_at>>

lvars == <<key_files, output_log, outcome>>

wvars == <<widget, shuffled, layout>>

cvars == <<cleartext, nonce, reader_keys, log_line, decrypted, cpc>>

nvars == <<hash_salt, jhub_user, seeds, selections, display, form, last_call>>

vars == <<vvars, svars, lvars, wvars, cvars, nvars>>

(***************************************************************************)
(* The inputs of validate_logfile that the model explores.                 *)
(***************************************************************************)
MaxBody == 3

MaxInfo == 2

\* log_variable writes "{info_type}, {value}, {timestamp}"
InfoLine(field, value, t) == <<Word("info"), Word(field), Word(value), Time(t)>>

ScoreLine(n, m, score, t) == <<QKey(n, m), Num(score), Time(t)>>

\* a line of the log file: "Encrypted Output: <b64>" when marker holds; valid
\* says that the payload base64-decodes and decrypts, then to clear
Enc(clear) == [marker |-> TRUE, valid |-> TRUE, clear |-> clear]

Corrupt(clear) == [marker |-> TRUE, valid |-> FALSE, clear |-> clear]

OtherLine == [marker |-> FALSE, valid |-> FALSE, clear |-> <<>>]

EncAll(entries) == [i \in 1..Len(entries) |-> Enc(entries[i])]

\* the identity form and initialize_assignment, logged once
FullIdentity ==
    <<InfoLine("assignment", "hw1", 1),
      InfoLine("drexel_id", "ab123", 1),
      InfoLine("first_name", "Ada", 1),
      InfoLine("last_name", "Lee", 1),
      InfoLine("drexel_email", "ab123@drexel.edu", 1)>>

DropAt(seq, i) == SubSeq(seq, 1, i - 1) \o SubSeq(seq, i + 1, Len(seq))

IdentityPrefixes ==
    {FullIdentity, <<>>} \cup {DropAt(FullIdentity, i) : i \in 1..Len(FullIdentity)}

InfoEntries ==
    {InfoLine("assignment", "hw1", 2),
     InfoLine("assignment", "hw2", 1),
     InfoLine("last_name", "Ng", 2),
     \* a value that holds a comma: five parts
     <<Word("info"), Word("assignment"), Word("hw2"), Word("b"), Time(2)>>,
     <<Word("info"), Word("last_name"), Word("Ng"), Word("Jr"), Time(2)>>,
     \* a line that lacks a part
     <<Word("info"), Word("last_name"), Time(2)>>,
     ScoreLine(1, 1, 3, 2)}

\* answers that are submitted again, in and out of chronological order
ScoreEntries ==
    {ScoreLine(1, 1, score, t) : score \in {0, 3}, t \in {1, 2}}
    \cup {ScoreLine(2, 1, score, 1) : score \in {0, 3}}

\* lines that are no answers, among answers
OtherEntries ==
    {ScoreLine(1, 1, 3, 1), ScoreLine(2, 1, -1, 2),
     <<QNote(2), Num(3), Time(1)>>,
     <<Word("x"), Num(3), Time(1)>>,
     <<CodeRun, Word("x = 1")>>}

\* answers to the parts of a question
PartEntries ==
    {ScoreLine(1, 1, 6, 1), ScoreLine(1, 2, 4, 1), ScoreLine(1, 3, 2, 2),
     ScoreLine(2, 1, 5, 2)}

Rubrics ==
    {<<[key |-> 1, val |-> 10], [key |-> 2, val |-> 5]>>,
     <<[key |-> 1, val |-> 10]>>}

FreeResponseChoices == {0, 1, 2}

Input(lines, id, rubric, frq) ==
    [lines |-> lines, id |-> id, rubric |-> rubric, frq |-> frq]

\* a complete identity followed by answers
ScoreInputs ==
    {Input(EncAll(FullIdentity \o body), "hw1", rubric, frq) :
        body \in SeqsUpTo(ScoreEntries, MaxBody) \cup SeqsUpTo(PartEntries, MaxBody)
                    \cup SeqsUpTo(OtherEntries, MaxBody),
        rubric \in Rubrics,
        frq \in FreeResponseChoices}

\* identities with a missing field, repeated fields, another assignment
IdentityInputs ==
    {Input(EncAll(prefix \o body), id, <<[key |-> 1, val |-> 10]>>, 0) :
        prefix \in IdentityPrefixes,
        body \in SeqsUpTo(InfoEntries, MaxInfo),
        id \in {"hw1", "hw2"}}

\* log files with lines that do not decrypt and lines without the marker
DamagedInputs ==
    LET base == FullIdentity \o <<ScoreLine(1, 1, 3, 2)>>
    IN  {Input([i \in 1..Len(base) |->
                    IF i \in bad THEN Corrupt(base[i]) ELSE Enc(base[i])] \o tail,
               "hw1", <<[key |-> 1, val |-> 10]>>, 0) :
            bad \in SUBSET (1..Len(base)),
            tail \in {<<>>, <<OtherLine>>}}

\* lines that are neither info lines nor answers
UnretainedEntries ==
    {<<Word("x"), Num(3), Time(1)>>,
     <<QNote(2), Num(3), Time(1)>>,
     <<CodeRun, Word("x = 1")>>}

\* log files without any info line or answer, the empty file among them
UnretainedInputs ==
    {Input(EncAll(body) \o tail, "hw1", <<[key |-> 1, val |-> 10]>>, frq) :
        body \in SeqsUpTo(UnretainedEntries, 2),
        tail \in {<<>>, <<OtherLine>>},
        frq \in {0, 1}}

\* lines whose timestamps are not in file order: 10:00:00 is Time(1),
\* 10:00:30 is Time(31), 10:42:30 is Time(2551)
TimedEntries ==
    {ScoreLine(1, 1, 3, 2551), ScoreLine(1, 1, 0, 31), InfoLine("first_name", "Ada", 0)}

TimedInputs ==
    {Input(EncAll(FullIdentity \o body), "hw1", <<[key |-> 1, val |-> 10]>>, 0) :
        body \in SeqsUpTo(TimedEntries, 2)}

\* a rubric whose keys were not inserted in ascending order
UnsortedRubric == <<[key |-> 2, val |-> 5], [key |-> 1, val |-> 10]>>

UnsortedRubricInputs ==
    {Input(EncAll(FullIdentity \o body), "hw1", UnsortedRubric, frq) :
        body \in SeqsUpTo(PartEntries, 2),
        frq \in {0, 2}}

\* answers worth more than the rubric allows, and answers below 0
UnboundedEntries ==
    {ScoreLine(1, 1, 12, 1), ScoreLine(1, 2, -2, 1), ScoreLine(1, 2, -1, 2)}

UnboundedInputs ==
    {Input(EncAll(FullIdentity \o body), "hw1", <<[key |-> 1, val |-> 10]>>, frq) :
        body \in SeqsUpTo(UnboundedEntries, 3),
        frq \in {0, 1}}

Inputs ==
    ScoreInputs \cup IdentityInputs \cup DamagedInputs \cup UnretainedInputs
        \cup TimedInputs \cup UnsortedRubricInputs \cup UnboundedInputs

HttpStatus == {200, 500}
(***************************************************************************)
(* validate_logfile as a state machine.                                    *)
(***************************************************************************)
InitValidate ==
    /\ \E inp \in Inputs :
        /\ encrypted_lines = inp.lines
        /\ assignment_id = inp.id
        /\ question_max_scores = inp.rubric
        /\ free_response_questions = inp.frq
    /\ pc = "decrypt"
    /\ data_ = <<>>
    /\ data_reduced = <<>>
    /\ last_entries = <<>>
    /\ q_entries = <<>>
    /\ max_scores = <<>>
    /\ question_scores = <<>>
    /\ tests = <<>>
    /\ files = {}
    /\ requests = <<>>
    /\ error = "none"

inputs == <<encrypted_lines, assignment_id, question_max_scores,
            free_response_questions>>

\* validate.py 84-86, 92-94: the words of the two sys.exit messages
DiagnosticWords(kind) ==
    IF kind = "SystemExit: not the correct assignment"
    THEN {"Your", "log", "file", "is", "not", "for", "the", "correct", "assignment",
          "Please", "submit"}
    ELSE IF kind = "SystemExit: submit your student information"
    THEN {"You", "must", "submit", "your", "student", "information", "before", "you",
          "start", "the", "exam", "Please", "and", "try", "again"}
    ELSE {}

\* an uncaught exception or sys.exit ends the run
Abort(kind) == pc' = "aborted" /\ error' = kind

\* validate.py 44: "Encrypted Output: " in line
HasMarker(line) == line.marker

\* a variant of DecryptRaises in which a failing line is passed over
DecryptNeverRaises(marked) == FALSE

\* validate.py 46-47: base64.b64decode or box.decrypt raises on some line
DecryptRaises(marked) == \E i \in 1..Len(marked) : ~marked[i].valid

\* validate.py 39-48: every line with the marker is decoded and decrypted
Decrypt ==
    /\ pc = "decrypt"
    /\ LET marked == SelectSeq(encrypted_lines, HasMarker)
       IN  IF DecryptRaises(marked)
           THEN /\ Abort("CryptoError")
                /\ UNCHANGED data_
           ELSE /\ data_' = [i \in 1..Len(marked) |-> marked[i].clear]
                /\ pc' = "reduce"
                /\ UNCHANGED error
    /\ UNCHANGED <<nvars, svars, lvars, wvars, cvars, inputs, data_reduced, last_entries, q_entries, max_scores,
                   question_scores, tests, files, requests>>

\* validate.py 52-77: data_reduced, .output_reduced.log, question_scores,
\* last_entries
Reduce ==
    /\ pc = "reduce"
    /\ data_reduced' = ReduceData(data_)
    /\ files' = files \cup {".output_reduced.log"}
    /\ question_scores' =
          [i \in 1..Len(question_max_scores) |->
              [key |-> question_max_scores[i].key, val |-> 0]]
    /\ last_entries' = LastEntries(ReduceData(data_))
    /\ pc' = "check_assignment"
    /\ UNCHANGED <<nvars, svars, lvars, wvars, cvars, inputs, data_, q_entries, max_scores, tests, requests, error>>

\* validate.py 82-86
CheckAssignment ==
    /\ pc = "check_assignment"
    /\ IF AssignmentMismatch(last_entries, assignment_id)
       THEN Abort("SystemExit: not the correct assignment")
       ELSE pc' = "check_info" /\ UNCHANGED error
    /\ UNCHANGED <<nvars, svars, lvars, wvars, cvars, inputs, data_, data_reduced, last_entries, q_entries,
                   max_scores, question_scores, tests, files, requests>>

\* validate.py 88-94
CheckStudentInfo ==
    /\ pc = "check_info"
    /\ IF StudentInfoMissing(last_entries)
       THEN Abort("SystemExit: submit your student information")
       ELSE pc' = "timestamps" /\ UNCHANGED error
    /\ UNCHANGED <<nvars, svars, lvars, wvars, cvars, inputs, data_, data_reduced, last_entries, q_entries,
                   max_scores, question_scores, tests, files, requests>>

\* validate.py 113-133: the timestamps of data_reduced, start_time, end_time,
\* elapsed_minutes, info.json
ComputeTimes ==
    /\ pc = "timestamps"
    /\ IF \/ \E i \in 1..Len(data_reduced) : ~TimestampParses(data_reduced[i])
          \/ data_reduced = <<>>
       THEN /\ Abort("ValueError: time data")
            /\ UNCHANGED <<last_entries, files>>
       ELSE LET timestamps == Range(Timestamps(data_reduced))
                lo == SetMin(timestamps)
                hi == SetMax(timestamps)
                added == {Word("start_time"), Word("end_time"), Word("elapsed_minutes")}
            IN  /\ last_entries' =
                      [f \in (DOMAIN last_entries) \cup added |->
                          IF f = Word("start_time") THEN Time(lo)
                          ELSE IF f = Word("end_time") THEN Time(hi)
                          ELSE IF f = Word("elapsed_minutes")
                               THEN Num(MinutesRounded(hi - lo))
                          ELSE last_entries[f]]
                /\ files' = files \cup {"info.json"}
                /\ pc' = "collapse"
                /\ UNCHANGED error
    /\ UNCHANGED <<nvars, svars, lvars, wvars, cvars, inputs, data_, data_reduced, q_entries, max_scores,
                   question_scores, tests, requests>>

\* validate.py 96-106, 135-190: data, free_response, q_entries
Collapse ==
    /\ pc = "collapse"
    /\ q_entries' = QEntries(data_, SplitData(data_), free_response_questions)
    /\ pc' = "score"
    /\ UNCHANGED <<nvars, svars, lvars, wvars, cvars, inputs, data_, data_reduced, last_entries, max_scores,
                   question_scores, tests, files, requests, error>>

\* validate.py 192-215: parsed_data, max_scores, question_scores
Score ==
    /\ pc = "score"
    /\ IF \E i \in 1..Len(q_entries) : ~ScoreParses(q_entries[i])
       THEN /\ Abort("ValueError: invalid literal for int()")
            /\ UNCHANGED <<max_scores, question_scores>>
       ELSE IF ScoreKeyError(MaxScores(q_entries), question_max_scores)
       THEN /\ Abort("KeyError")
            /\ max_scores' = MaxScores(q_entries)
            /\ UNCHANGED question_scores
       ELSE /\ max_scores' = MaxScores(q_entries)
            /\ question_scores' = QuestionScores(MaxScores(q_entries), question_scores)
            /\ pc' = "report"
            /\ UNCHANGED error
    /\ UNCHANGED <<nvars, svars, lvars, wvars, cvars, inputs, data_, data_reduced, last_entries, q_entries, tests,
                   files, requests>>

\* validate.py 217-247: the sorted dicts, result_structure, results.json
Report ==
    /\ pc = "report"
    /\ tests' = BuildTests(SortDict(question_scores), SortDict(question_max_scores))
    /\ files' = files \cup {"results.json"}
    /\ pc' = "login"
    /\ UNCHANGED <<nvars, svars, lvars, wvars, cvars, inputs, data_, data_reduced, last_entries, q_entries,
                   max_scores, question_scores, requests, error>>

\* validate.py 284-292: login_ returns whatever the status is
LoginReturns(status) == TRUE

\* a variant of NextRequest that sends a request again after a status that
\* is not 200
RetryRequest(url, status) ==
    IF status # 200 THEN (IF url = "login_url" THEN "login" ELSE "upload")
    ELSE IF url = "login_url" THEN "upload"
    ELSE "done"

\* validate.py 249-281: what follows a request: the upload follows the login,
\* and submission_message, which only prints, ends the run
NextRequest(url, status) == IF url = "login_url" THEN "upload" ELSE "done"

\* validate.py 249: login_(login_data, login_url)
Login ==
    /\ pc = "login"
    /\ \E status \in HttpStatus :
        /\ requests' = Append(requests, [url |-> "login_url", status |-> status])
        /\ IF LoginReturns(status)
           THEN pc' = NextRequest("login_url", status) /\ UNCHANGED error
           ELSE Abort("Exception: Login failed")
    /\ UNCHANGED <<nvars, svars, lvars, wvars, cvars, inputs, data_, data_reduced, last_entries, q_entries,
                   max_scores, question_scores, tests, files>>

\* validate.py 251-281: the POST to post_url, then submission_message
Upload ==
    /\ pc = "upload"
    /\ \E status \in HttpStatus :
        /\ requests' = Append(requests, [url |-> "post_url", status |-> status])
        /\ pc' = NextRequest("post_url", status)
    /\ UNCHANGED <<nvars, svars, lvars, wvars, cvars, inputs, data_, data_reduced, last_entries, q_entries,
                   max_scores, question_scores, tests, files, error>>

NextValidate ==
    \/ Decrypt
    \/ Reduce
    \/ CheckAssignment
    \/ CheckStudentInfo
    \/ ComputeTimes
    \/ Collapse
    \/ Score
    \/ Report
    \/ Login
    \/ Upload

(***************************************************************************)
(* The response store: telemetry.py, ensure_responses and                  *)
(* update_responses, one step per file operation, with a process that can  *)
(* stop between any two of them.                                           *)
(***************************************************************************)
\* the content of a file
Absent == [st |-> "absent", obj |-> <<>>]

Empty == [st |-> "empty", obj |-> <<>>]

\* the text json.dump(obj) writes, in full
Json(obj) == [st |-> "json", obj |-> obj]

\* a proper prefix of that text
Truncated(obj) == [st |-> "truncated", obj |-> obj]

\* a text that is no JSON
Garbage == [st |-> "garbage", obj |-> <<>>]

\* a variant of Parses for a reader that never raises
ParsesAnything(content) == TRUE

\* telemetry.py 56: json.load(f) returns the object, or raises JSONDecodeError
Parses(content) == content.st = "json"

\* a value json.dump can write, and one it cannot (TypeError)
Val(v) == [ser |-> TRUE, v |-> v]

NotSerializable == [ser |-> FALSE, v |-> 0]

\* a value that holds itself, which json.dump rejects with ValueError
\* ("Circular reference detected")
Circular == [ser |-> FALSE, v |-> 1]

Serializable(obj) == \A k \in DOMAIN obj : obj[k].ser

\* telemetry.py 73: the exception json.dump(data, f) ends with
DumpError(obj) ==
    IF Serializable(obj) THEN "none"
    ELSE IF \E k \in DOMAIN obj : obj[k] = Circular THEN "ValueError"
    ELSE "TypeError"

\* telemetry.py 76: except (TypeError, json.JSONDecodeError)
Caught(exception) == exception \in {"TypeError", "JSONDecodeError"}

\* a variant of RemoveIfExists that leaves the file where it is
KeepFile(files_, path) == files_

\* telemetry.py 79-80: if os.path.exists(temp_path): os.remove(temp_path)
RemoveIfExists(files_, path) == [files_ EXCEPT ![path] = Absent]

\* a variant of temp_path: the new text is written over the store itself
orig_path_again == ".responses.json"

\* telemetry.py 68
temp_path == ".responses.tmp"

\* telemetry.py 69
orig_path == ".responses.json"

StoreKeys == {"seed", "q1_1"}

StoreValues == {Val(1), Val(2), NotSerializable, Circular}

\* a variant of SetItem that starts from an empty dict
SetOnly(d, k, v) == [x \in {k} |-> v]

\* telemetry.py 66: data[key] = value
SetItem(d, k, v) == [x \in (DOMAIN d) \cup {k} |-> IF x = k THEN v ELSE d[x]]

\* telemetry.py 75: os.replace(src, dst), atomic
Replace(files_, src, dst) ==
    IF src = dst THEN files_
    ELSE [files_ EXCEPT ![dst] = files_[src], ![src] = Absent]

InitStore ==
    /\ \E content \in {Absent, Empty, Garbage, Json(<<>>)} :
        fs = [path \in {orig_path, ".responses.tmp"} |->
                 IF path = orig_path THEN content ELSE Absent]
    /\ upc = "idle"
    /\ op = "none"
    /\ arg_key = "seed"
    /\ arg_value = Val(1)
    /\ local_data = <<>>
    /\ returned = [raised |-> FALSE, obj |-> <<>>]
    /\ before = Absent
    /\ crashed_at = "none"

StoreOff ==
    /\ fs = [path \in {orig_path, ".responses.tmp"} |-> Absent]
    /\ upc = "off"
    /\ op = "none"
    /\ arg_key = "seed"
    /\ arg_value = Val(1)
    /\ local_data = <<>>
    /\ returned = [raised |-> FALSE, obj |-> <<>>]
    /\ before = Absent
    /\ crashed_at = "none"

\* telemetry.py 64: a call of update_responses(key, value)
CallUpdate ==
    /\ upc = "idle"
    /\ \E k \in StoreKeys, v \in StoreValues : arg_key' = k /\ arg_value' = v
    /\ op' = "update"
    /\ upc' = "ensure_open"
    /\ local_data' = <<>>
    /\ before' = fs[orig_path]
    /\ crashed_at' = "none"
    /\ UNCHANGED <<nvars, vvars, lvars, wvars, cvars, fs, returned>>

\* telemetry.py 48: a call of ensure_responses()
CallEnsure ==
    /\ upc = "idle"
    /\ op' = "ensure"
    /\ upc' = "ensure_open"
    /\ local_data' = <<>>
    /\ before' = fs[orig_path]
    /\ crashed_at' = "none"
    /\ UNCHANGED <<nvars, vvars, lvars, wvars, cvars, fs, arg_key, arg_value, returned>>

\* where ensure_responses returns to
AfterEnsure ==
    IF op = "update" THEN "assign"
    ELSE IF op = "widget" THEN "widget_seed"
    ELSE "return"

\* telemetry.py 49-50: open(".responses.json", "a") creates a missing file
EnsureOpen ==
    /\ upc = "ensure_open"
    /\ fs' = IF fs[orig_path].st = "absent"
             THEN [fs EXCEPT ![orig_path] = Empty] ELSE fs
    /\ upc' = "ensure_load"
    /\ UNCHANGED <<nvars, vvars, lvars, wvars, cvars, op, arg_key, arg_value, local_data, returned, before, crashed_at>>

\* telemetry.py 52-57: json.load
EnsureLoad ==
    /\ upc = "ensure_load"
    /\ IF Parses(fs[orig_path])
       THEN local_data' = fs[orig_path].obj /\ upc' = AfterEnsure
       ELSE local_data' = <<>> /\ upc' = "ensure_truncate"
    /\ UNCHANGED <<nvars, vvars, lvars, wvars, cvars, fs, op, arg_key, arg_value, returned, before, crashed_at>>

\* telemetry.py 58: open(".responses.json", "w") empties the file
EnsureTruncate ==
    /\ upc = "ensure_truncate"
    /\ fs' = [fs EXCEPT ![orig_path] = Empty]
    /\ upc' = "ensure_dump"
    /\ UNCHANGED <<nvars, vvars, lvars, wvars, cvars, op, arg_key, arg_value, local_data, returned, before, crashed_at>>

\* telemetry.py 59: json.dump(data, f) and the end of the with block
EnsureDump ==
    /\ upc = "ensure_dump"
    /\ fs' = [fs EXCEPT ![orig_path] = Json(local_data)]
    /\ upc' = AfterEnsure
    /\ UNCHANGED <<nvars, vvars, lvars, wvars, cvars, op, arg_key, arg_value, local_data, returned, before, crashed_at>>

\* telemetry.py 66: data[key] = value
Assign ==
    /\ upc = "assign"
    /\ local_data' = SetItem(local_data, arg_key, arg_value)
    /\ upc' = "tmp_open"
    /\ UNCHANGED <<nvars, vvars, lvars, wvars, cvars, fs, op, arg_key, arg_value, returned, before, crashed_at>>

\* telemetry.py 72: open(temp_path, "w")
TmpOpen ==
    /\ upc = "tmp_open"
    /\ fs' = [fs EXCEPT ![temp_path] = Empty]
    /\ upc' = "tmp_dump"
    /\ UNCHANGED <<nvars, vvars, lvars, wvars, cvars, op, arg_key, arg_value, local_data, returned, before, crashed_at>>

\* telemetry.py 73: json.dump(data, f) writes the text piece by piece and
\* raises TypeError at a arg_value it cannot write
TmpDump ==
    /\ upc = "tmp_dump"
    /\ fs' = [fs EXCEPT ![temp_path] = Truncated(local_data)]
    /\ upc' = IF DumpError(local_data) = "none" THEN "tmp_close"
              ELSE IF Caught(DumpError(local_data)) THEN "except"
              ELSE "propagate"
    /\ UNCHANGED <<nvars, vvars, lvars, wvars, cvars, op, arg_key, arg_value, local_data, returned, before, crashed_at>>

\* telemetry.py 72-73: the end of the with block, after the last piece
TmpClose ==
    /\ upc = "tmp_close"
    /\ fs' = [fs EXCEPT ![temp_path] = Json(local_data)]
    /\ upc' = "replace"
    /\ UNCHANGED <<nvars, vvars, lvars, wvars, cvars, op, arg_key, arg_value, local_data, returned, before, crashed_at>>

\* telemetry.py 75
ReplaceStore ==
    /\ upc = "replace"
    /\ fs' = Replace(fs, temp_path, orig_path)
    /\ upc' = "return"
    /\ UNCHANGED <<nvars, vvars, lvars, wvars, cvars, op, arg_key, arg_value, local_data, returned, before, crashed_at>>

\* telemetry.py 76-82: the temporary file is removed and the error raised again
Except ==
    /\ upc = "except"
    /\ fs' = RemoveIfExists(fs, temp_path)
    /\ returned' = [raised |-> TRUE, obj |-> <<>>]
    /\ upc' = "idle"
    /\ UNCHANGED <<nvars, vvars, lvars, wvars, cvars, op, arg_key, arg_value, local_data, before, crashed_at>>

\* telemetry.py 71-76: an exception that the except clause does not name
\* leaves update_responses at once; the with block has closed the temporary
\* file, which stays with the text written so far
Propagate ==
    /\ upc = "propagate"
    /\ returned' = [raised |-> TRUE, obj |-> <<>>]
    /\ upc' = "idle"
    /\ UNCHANGED <<nvars, vvars, lvars, wvars, cvars, fs, op, arg_key, arg_value, local_data, before, crashed_at>>

\* telemetry.py 61, 84: return data
Return ==
    /\ upc = "return"
    /\ returned' = [raised |-> FALSE, obj |-> local_data]
    /\ upc' = "idle"
    /\ UNCHANGED <<nvars, vvars, lvars, wvars, cvars, fs, op, arg_key, arg_value, local_data, before, crashed_at>>

\* the process stops in the middle of a call; the files stay as they are
Crash ==
    /\ upc \notin {"idle", "crashed", "off"}
    /\ crashed_at' = upc
    /\ upc' = "crashed"
    /\ UNCHANGED <<nvars, vvars, lvars, wvars, cvars, fs, op, arg_key, arg_value, local_data, returned, before>>

\* a new kernel process starts
Restart ==
    /\ upc = "crashed"
    /\ upc' = "idle"
    /\ local_data' = <<>>
    /\ UNCHANGED <<nvars, vvars, lvars, wvars, cvars, fs, op, arg_key, arg_value, returned, before, crashed_at>>

\* the question widgets that read the seed when they are constructed
WidgetClasses == {"SelectQuestion", "MultiSelectQuestion", "ReadingPython"}

\* no widget is under construction
WidgetIdle ==
    /\ widget = "none"
    /\ shuffled = FALSE
    /\ layout = FALSE

\* select.py 28, multi_select_base.py 23, reading_base.py 19: the constructor
\* starts with responses = ensure_responses()
CallWidget ==
    /\ upc = "idle"
    /\ \E cls \in WidgetClasses : widget' = cls
    /\ shuffled' = FALSE
    /\ layout' = FALSE
    /\ op' = "widget"
    /\ upc' = "ensure_open"
    /\ local_data' = <<>>
    /\ before' = fs[orig_path]
    /\ crashed_at' = "none"
    /\ UNCHANGED <<nvars, vvars, lvars, cvars, fs, arg_key, arg_value, returned>>

\* a variant of SeedMissing that reads the seed with responses.get("seed")
SeedNeverMissing(responses) == FALSE

\* select.py 36: responses["seed"] raises KeyError when the key is missing
SeedMissing(responses) == "seed" \notin DOMAIN responses

\* select.py 35-40, multi_select_base.py 36-41, reading_base.py 40-45: the
\* KeyError is no ValueError, so it leaves the constructor as it is
WidgetSeed ==
    /\ upc = "widget_seed"
    /\ IF SeedMissing(local_data)
       THEN /\ returned' = [raised |-> TRUE, obj |-> <<>>]
            /\ upc' = "idle"
       ELSE /\ upc' = "widget_build"
            /\ UNCHANGED returned
    /\ UNCHANGED <<nvars, vvars, lvars, wvars, cvars, fs, op, arg_key, arg_value, local_data,
                   before, crashed_at>>

\* select.py 42-62, multi_select_base.py 43-69, reading_base.py 47-68: the
\* widgets, the shuffle with the seed, the layout
WidgetBuild ==
    /\ upc = "widget_build"
    /\ shuffled' = TRUE
    /\ layout' = TRUE
    /\ returned' = [raised |-> FALSE, obj |-> local_data]
    /\ upc' = "idle"
    /\ UNCHANGED <<nvars, vvars, lvars, cvars, widget, fs, op, arg_key, arg_value, local_data,
                   before, crashed_at>>

NextStore ==
    \/ CallUpdate
    \/ CallEnsure
    \/ EnsureOpen
    \/ EnsureLoad
    \/ EnsureTruncate
    \/ EnsureDump
    \/ Assign
    \/ TmpOpen
    \/ TmpDump
    \/ TmpClose
    \/ ReplaceStore
    \/ Except
    \/ Propagate
    \/ Return
    \/ Crash
    \/ Restart
    \/ CallWidget
    \/ WidgetSeed
    \/ WidgetBuild

(***************************************************************************)
(* The encrypted event logger: telemetry.py, telemetry, encrypt_to_b64,    *)
(* log_encrypted and log_variable.                                         *)
(***************************************************************************)
MaxLines == 3

\* the key files encrypt_to_b64 reads
LoggerKeyFiles == {"server_public_key.bin", "client_private_key.bin"}

\* a key file is missing, holds bytes that are no key, or holds a key
KeyFileStates == {"absent", "invalid", "valid"}

\* the cell sources that are run, by their comma-separated parts
Cells == {<<CodeRun>>, <<CodeRun, Word("b = 2")>>, <<CodeRun, Word("a = 1\nb = 2")>>}

\* the cells whose source spans several lines
MultiLineCells == {<<CodeRun, Word("a = 1\nb = 2")>>}

\* the (info_type, value) pairs that are logged, by their comma-separated parts
LoggedVariables ==
    {<<<<QKey(1, 1)>>, <<Num(3)>>>>,
     <<<<Word("info")>>, <<Word("assignment"), Word("hw1")>>>>,
     <<<<Word("x")>>, <<Num(3)>>>>}

LogTimes == {1, 2}

\* telemetry.py 22-31: open() raises FileNotFoundError on a missing key file,
\* PublicKey() and PrivateKey() raise on bytes that are no key
EncryptRaises(files_) == \E f \in LoggerKeyFiles : files_[f] # "valid"

InitLogger ==
    /\ key_files \in [LoggerKeyFiles -> KeyFileStates]
    /\ output_log = <<>>
    /\ outcome = [f |-> "none", result |-> "none"]

LoggerOff ==
    /\ key_files = [f \in LoggerKeyFiles |-> "valid"]
    /\ output_log = <<>>
    /\ outcome = [f |-> "off", result |-> "none"]

\* a variant of FileHandlerEmit for a handler that opens its file with mode "w"
\* for every record
FileHandlerRewrite(file_lines, line) == <<line>>

\* telemetry.py 13, 39: the FileHandler basicConfig(filename=".output.log")
\* installs opens the file with mode "a"; logging.info writes the record and
\* a line terminator at the end of the file
FileHandlerEmit(file_lines, line) == Append(file_lines, line)

\* telemetry.py 37-39: log_encrypted(message) appends one line, or the error
\* of encrypt_to_b64 goes up to the caller; the base64 text of the ciphertext
\* holds no line break, whatever the message holds
LogEncrypted(f, message) ==
    IF EncryptRaises(key_files)
    THEN /\ outcome' = [f |-> f, result |-> "raised"]
         /\ UNCHANGED output_log
    ELSE /\ output_log' = FileHandlerEmit(output_log, Enc(message))
         /\ outcome' = [f |-> f, result |-> "returned"]

\* telemetry.py 16-18: telemetry(info), the pre_run_cell hook
Telemetry ==
    /\ outcome.f # "off"
    /\ Len(output_log) < MaxLines
    /\ \E cell \in Cells : LogEncrypted("telemetry", cell)
    /\ UNCHANGED <<nvars, vvars, svars, wvars, cvars, key_files>>

\* telemetry.py 42-45: log_variable(value, info_type)
LogVariable ==
    /\ outcome.f # "off"
    /\ Len(output_log) < MaxLines
    /\ \E var \in LoggedVariables, t \in LogTimes :
        LogEncrypted("log_variable", var[1] \o var[2] \o <<Time(t)>>)
    /\ UNCHANGED <<nvars, vvars, svars, wvars, cvars, key_files>>

NextLogger ==
    \/ Telemetry
    \/ LogVariable

(***************************************************************************)
(* One event from log_encrypted to validate_logfile: telemetry.py,         *)
(* encrypt_to_b64 and log_encrypted; validate.py, the box and the loop     *)
(* that decodes and decrypts.                                              *)
(***************************************************************************)
\* the key pairs that exist: the two of the design and a foreign one
KeyOwners == {"client", "server", "other"}

\* nacl.public.PrivateKey(bytes), nacl.public.PublicKey(bytes)
PrivateKey(owner) == [half |-> "private", of |-> owner]

PublicKey(owner) == [half |-> "public", of |-> owner]

\* nacl.public.Box(private, public): the key both sides share; Curve25519
\* yields the same key from (a's private, b's public) and (b's private,
\* a's public)
Box(private, public) == [shared |-> {private.of, public.of}]

\* str.encode() and bytes.decode()
StrEncode(text) == [utf8 |-> text]

BytesDecode(bytes) == bytes.utf8

\* box.encrypt(plaintext): the nonce it draws and the authenticated ciphertext
BoxEncrypt(box, plaintext, n) == [nonce |-> n, key |-> box.shared, text |-> plaintext]

\* a variant of BoxDecryptRaises for a cipher that does not authenticate
BoxDecryptUnchecked(box, ciphertext) == FALSE

\* box.decrypt(ciphertext) raises CryptoError unless the box holds the key
\* the ciphertext was made with
BoxDecryptRaises(box, ciphertext) == ciphertext.key # box.shared

BoxDecrypt(box, ciphertext) == ciphertext.text

\* base64.b64encode(bytes).decode("utf-8") and base64.b64decode(text)
B64Encode(bytes) == [b64 |-> bytes]

B64Decode(text) == text.b64

\* telemetry.py 21-34: encrypt_to_b64, with the keys of the two key files
EncryptToB64(text, n) ==
    LET server_pub_key  == PublicKey("server")
        client_priv_key == PrivateKey("client")
        box             == Box(client_priv_key, server_pub_key)
    IN  B64Encode(BoxEncrypt(box, StrEncode(text), n))

\* telemetry.py 39 and 13: the line logging.info writes to .output.log
OutputLine(encrypted_b64) ==
    [level |-> "INFO:root:", marker |-> "Encrypted Output: ", rest |-> encrypted_b64]

\* the cleartext events that are logged
Messages ==
    {<<CodeRun, Word("x = 1")>>, InfoLine("assignment", "hw1", 1),
     ScoreLine(1, 1, 3, 1), <<Word("x"), Num(3), Time(1)>>}

Nonces == {1, 2}

\* the pairs of key files the reading side can hold
ReaderKeys ==
    {[private |-> PrivateKey(a), public |-> PublicKey(b)] : a \in KeyOwners, b \in KeyOwners}

\* validate.py 29-35: server_private_key.bin and client_public_key.bin
DesignedReaderKeys == [private |-> PrivateKey("server"), public |-> PublicKey("client")]

InitCrypto ==
    /\ cleartext \in Messages
    /\ nonce \in Nonces
    /\ reader_keys \in ReaderKeys
    /\ log_line = <<>>
    /\ decrypted = [raised |-> FALSE, text |-> <<>>]
    /\ cpc = "encrypt"

CryptoOff ==
    /\ cleartext = <<>>
    /\ nonce = 1
    /\ reader_keys = DesignedReaderKeys
    /\ log_line = <<>>
    /\ decrypted = [raised |-> FALSE, text |-> <<>>]
    /\ cpc = "off"

\* telemetry.py 37-39: log_encrypted(message)
LogEvent ==
    /\ cpc = "encrypt"
    /\ log_line' = OutputLine(EncryptToB64(cleartext, nonce))
    /\ cpc' = "logged"
    /\ UNCHANGED <<nvars, vvars, svars, lvars, wvars, cleartext, nonce, reader_keys, decrypted>>

\* validate.py 37, 44-47: the box of the reading side, the text after the
\* marker, b64decode, box.decrypt, decode
ReadEvent ==
    /\ cpc = "logged"
    /\ LET box     == Box(reader_keys.private, reader_keys.public)
           trimmed == log_line.rest
           decoded == B64Decode(trimmed)
       IN  decrypted' =
               IF BoxDecryptRaises(box, decoded)
               THEN [raised |-> TRUE, text |-> <<>>]
               ELSE [raised |-> FALSE, text |-> BytesDecode(BoxDecrypt(box, decoded))]
    /\ cpc' = "done"
    /\ UNCHANGED <<nvars, vvars, svars, lvars, wvars, cleartext, nonce, reader_keys, log_line>>

NextCrypto ==
    \/ LogEvent
    \/ ReadEvent

(***************************************************************************)
(* The specifications: a validation run, a session of the response store,  *)
(* a session of the logger.                                                *)
(***************************************************************************)
(***************************************************************************)
(* The notebook side: initialize.py, initialize_assignment; utils.py,      *)
(* shuffle_questions; widgets_base/select.py, SelectQuestion;              *)
(* info_widget.py, StudentInfoForm. A call of update_responses or          *)
(* ensure_responses inside a handler is taken by what it leaves in         *)
(* .responses.json when it returns.                                        *)
(***************************************************************************)
MaxInits == 2

\* Python values: a str by its characters, an int, None
PyStr(chars) == [k |-> "str", chars |-> chars, n |-> 0]

PyInt(n) == [k |-> "int", chars |-> <<>>, n |-> n]

PyNone == [k |-> "none", chars |-> <<>>, n |-> 0]

Letters ==
    <<"a", "b", "c", "d", "e", "f", "g", "h", "i", "j", "k", "l", "m",
      "n", "o", "p", "q", "r", "s", "t", "u", "v", "w", "x", "y", "z">>

DigitChars == <<"0", "1", "2", "3", "4", "5", "6", "7", "8", "9">>

OtherChars == <<"@", ".", " ", "A", "L", "N", "J", "H", "I", "P">>

\* the code point of a character, as its place in the three lists
Ord(c) ==
    LET all == Letters \o DigitChars \o OtherChars
    IN  CHOOSE i \in 1..Len(all) : all[i] = c

\* a number made of all the characters of a text
RECURSIVE TextCode(_)
TextCode(text) ==
    IF text = <<>> THEN 0
    ELSE (TextCode(SubSeq(text, 1, Len(text) - 1)) * 31 + Ord(Last(text))) % 65536

\* the salts a kernel process can start with (PYTHONHASHSEED is not set, so
\* each process draws its own)
Salts == 0..2

\* a variant of PyHash that does not depend on the process
UnsaltedHash(text, salt) == TextCode(text)

\* initialize.py 31: hash(jhub_user). The hash of a str is a signed value
\* that depends on the text and on the salt of the process; hash("") is 0
PyHash(text, salt) ==
    IF text = <<>> THEN 0
    ELSE (((TextCode(text) + 1) * (7919 * salt + 10007)) % 65536) - 32768

UserName == <<"a", "b", "1", "2">>

\* os.getenv("JUPYTERHUB_USER"): not set, set to "", set to a user name
EnvValues == {PyNone, PyStr(<<>>), PyStr(UserName)}

\* telemetry.py 48-61: what ensure_responses() returns and what it leaves in
\* .responses.json
EnsureResponses(content) ==
    [data |-> IF Parses(content) THEN content.obj ELSE <<>>,
     file |-> IF Parses(content) THEN content ELSE Json(<<>>)]

\* telemetry.py 64-84: .responses.json after update_responses(key, value)
\* has returned
UpdateResponses(content, k, v) ==
    Json(SetItem(EnsureResponses(content).data, k, Val(v)))

\* for key in keys: update_responses(key, values[key])
RECURSIVE UpdateAll(_, _, _)
UpdateAll(content, keys, values) ==
    IF keys = <<>> THEN content
    ELSE UpdateAll(UpdateResponses(content, Head(keys), values[Head(keys)]),
                   Tail(keys), values)

StoreWrite(files_, content) == [files_ EXCEPT ![orig_path] = content]

\* the stores a handler can find: none, one that is no JSON, an empty one,
\* one with a seed, one with a seed and an answer
FoundStores ==
    {Absent, Garbage, Json(<<>>),
     Json([k \in {"seed"} |-> Val(PyInt(6))]),
     Json([k \in {"seed"} |-> Val(PyInt(7))]),
     Json([k \in {"seed", "q1_1"} |->
              IF k = "seed" THEN Val(PyInt(7)) ELSE Val(PyStr(<<"A">>))])}

NoForm == [first_name |-> <<>>, last_name |-> <<>>, drexel_id |-> <<>>,
           drexel_email |-> <<>>, hostname |-> <<>>, ip_address |-> <<>>,
           drawn |-> 0]

NoCall == [f |-> "none", raised |-> FALSE, before |-> Absent]

NotebookOff ==
    /\ hash_salt = 0
    /\ jhub_user = PyNone
    /\ seeds = <<>>
    /\ selections = <<>>
    /\ display = <<>>
    /\ form = NoForm
    /\ last_call = NoCall

\* a kernel process with a store on disk; the store functions are not
\* stepped through
InitNotebook ==
    /\ \E content \in FoundStores :
        fs = [path \in {orig_path, ".responses.tmp"} |->
                 IF path = orig_path THEN content ELSE Absent]
    /\ upc = "off"
    /\ op = "none"
    /\ arg_key = "seed"
    /\ arg_value = Val(1)
    /\ local_data = <<>>
    /\ returned = [raised |-> FALSE, obj |-> <<>>]
    /\ before = Absent
    /\ crashed_at = "none"
    /\ hash_salt \in Salts
    /\ jhub_user \in EnvValues
    /\ seeds = <<>>
    /\ selections = <<>>
    /\ display = <<>>
    /\ form = NoForm
    /\ last_call = NoCall

\* the store variables a handler does not touch
store_locals == <<upc, op, arg_key, arg_value, local_data, returned, before, crashed_at>>

\* initialize.py 9-66: initialize_assignment(name, verbose, url). It returns at
\* once outside IPython and without JUPYTERHUB_USER; it stores seed,
\* assignment and jhub_user, reads the store back and asks the API, where an
\* unreachable API raises after the store is written
InitializeAssignment ==
    /\ Len(seeds) < MaxInits
    /\ \E in_ipython \in BOOLEAN, api \in {"answers", "unreachable"} :
        LET seed   == PyHash(jhub_user.chars, hash_salt) % 1000
            stored == [key \in {"seed", "assignment", "jhub_user"} |->
                          IF key = "seed" THEN PyInt(seed)
                          ELSE IF key = "assignment" THEN PyStr(<<"h", "w", "1">>)
                          ELSE jhub_user]
        IN  IF ~in_ipython \/ jhub_user = PyNone
            THEN /\ UNCHANGED <<fs, seeds>>
                 /\ last_call' = [f |-> "initialize_assignment", raised |-> FALSE,
                                  before |-> fs[orig_path]]
            ELSE /\ fs' = StoreWrite(fs, UpdateAll(fs[orig_path],
                                <<"seed", "assignment", "jhub_user">>, stored))
                 /\ seeds' = Append(seeds, seed)
                 /\ last_call' = [f |-> "initialize_assignment",
                                  raised |-> api = "unreachable",
                                  before |-> fs[orig_path]]
    /\ UNCHANGED <<vvars, lvars, wvars, cvars, store_locals, hash_salt, jhub_user,
                   selections, display, form>>

\* the kernel is restarted: a new process, with a salt of its own
StartKernel ==
    /\ \E salt \in Salts : hash_salt' = salt
    /\ last_call' = NoCall
    /\ UNCHANGED <<vvars, svars, lvars, wvars, cvars, jhub_user, seeds, selections,
                   display, form>>

NextInitialize ==
    \/ InitializeAssignment
    \/ StartKernel

\* SelectQuestion(keys=...): the keys of the sub-questions, in the order of
\* construction
SelectKeys == <<"q1_1", "q1_2">>

\* the values a dropdown offers
Options == {PyStr(<<"A">>), PyStr(<<"B">>)}

\* utils.py 18-29: shuffle_questions zips the two lists into a new list of
\* pairs and shuffles that list after random.seed(seed); the order it gives
\* is a function of the seed (taken here as a rotation by the seed)
ShuffleQuestions(desc_widgets, dropdowns, seed) ==
    LET widget_pairs == [i \in 1..Len(desc_widgets) |-> <<desc_widgets[i], dropdowns[i]>>]
    IN  [i \in 1..Len(widget_pairs) |->
            widget_pairs[((i - 1 + seed) % Len(widget_pairs)) + 1]]

\* a variant of SubmittedWidgets that takes the widgets in the order of the
\* layout
DisplayedWidgets(widgets_, widget_pairs) ==
    [i \in 1..Len(widget_pairs) |-> widgets_[widget_pairs[i][2]]]

\* select.py 65: zip(self.keys, self.widgets); self.widgets is the list style
\* returned, which shuffle_questions does not reorder
SubmittedWidgets(widgets_, widget_pairs) == widgets_

\* select.py 28-62: the constructor. ensure_responses() comes first; without
\* a seed responses["seed"] raises KeyError; the widgets start from the
\* stored answers, None where there is none
ConstructSelect ==
    /\ LET responses == EnsureResponses(fs[orig_path]).data
           places == [i \in 1..Len(SelectKeys) |-> i]
       IN  /\ fs' = StoreWrite(fs, EnsureResponses(fs[orig_path]).file)
           /\ IF "seed" \notin DOMAIN responses
              THEN /\ selections' = <<>>
                   /\ display' = <<>>
                   /\ last_call' = [f |-> "SelectQuestion", raised |-> TRUE,
                                    before |-> fs[orig_path]]
              ELSE /\ selections' =
                        [i \in 1..Len(SelectKeys) |->
                            IF SelectKeys[i] \in DOMAIN responses
                            THEN responses[SelectKeys[i]].v ELSE PyNone]
                   /\ display' = ShuffleQuestions(places, places, responses["seed"].v.n)
                   /\ last_call' = [f |-> "SelectQuestion", raised |-> FALSE,
                                    before |-> fs[orig_path]]
    /\ UNCHANGED <<vvars, lvars, wvars, cvars, store_locals, hash_salt, jhub_user,
                   seeds, form>>

\* the student picks a value in the dropdown at a place of the layout
Select ==
    /\ display # <<>>
    /\ \E place \in 1..Len(display), option \in Options :
        selections' = [selections EXCEPT ![display[place][2]] = option]
    /\ last_call' = NoCall
    /\ UNCHANGED <<vvars, svars, lvars, wvars, cvars, hash_salt, jhub_user, seeds,
                   display, form>>

\* select.py 64-76: submit. Every value is looked at before the first
\* update_responses call
SubmitSelect ==
    /\ display # <<>>
    /\ LET widgets_ == SubmittedWidgets(selections, display)
           chosen   == [key \in Range(SelectKeys) |->
                           widgets_[CHOOSE i \in 1..Len(SelectKeys) : SelectKeys[i] = key]]
       IN  IF \E key \in DOMAIN chosen : chosen[key] = PyNone
           THEN /\ UNCHANGED fs
                /\ last_call' = [f |-> "SelectQuestion.submit", raised |-> TRUE,
                                 before |-> fs[orig_path]]
           ELSE /\ fs' = StoreWrite(fs, UpdateAll(fs[orig_path], SelectKeys, chosen))
                /\ last_call' = [f |-> "SelectQuestion.submit", raised |-> FALSE,
                                 before |-> fs[orig_path]]
    /\ UNCHANGED <<vvars, lvars, wvars, cvars, store_locals, hash_salt, jhub_user,
                   seeds, selections, display, form>>

NextSelect ==
    \/ ConstructSelect
    \/ Select
    \/ SubmitSelect

\* info_widget.py 12-21
KEYS ==
    <<"first_name", "last_name", "drexel_id", "drexel_email", "hostname",
      "ip_address", "jupyter_user", "seed">>

\* str.strip(), for blanks
RECURSIVE Strip(_)
Strip(text) ==
    IF text = <<>> THEN text
    ELSE IF Head(text) = " " THEN Strip(Tail(text))
    ELSE IF Last(text) = " " THEN Strip(SubSeq(text, 1, Len(text) - 1))
    ELSE text

DrexelDomain == <<"@", "d", "r", "e", "x", "e", "l", ".", "e", "d", "u">>

\* info_widget.py 10, 89: EMAIL_PATTERN.fullmatch(text) for
\* [a-z]+\d+@drexel\.edu
EmailPatternFullmatch(text) ==
    \E letters \in 1..Len(text), digits \in 1..Len(text) :
        /\ Len(text) = letters + digits + Len(DrexelDomain)
        /\ \A i \in 1..letters : text[i] \in Range(Letters)
        /\ \A i \in (letters + 1)..(letters + digits) : text[i] \in Range(DigitChars)
        /\ SubSeq(text, letters + digits + 1, Len(text)) = DrexelDomain

\* info_widget.py 92: text.split("@")[0]
EmailPrefix(text) ==
    LET ats == {i \in 1..Len(text) : text[i] = "@"}
    IN  IF ats = {} THEN text ELSE SubSeq(text, 1, SetMin(ats) - 1)

\* what the student types and what the host answers
Forms ==
    [first_name   : {<<" ">>, <<" ", "A", "d", "a">>},
     last_name    : {<<"L", "e", "e">>},
     drexel_id    : {UserName, UserName \o <<" ">>, <<"c", "d", "3", "4">>},
     drexel_email : {<<>>,
                     UserName \o DrexelDomain,
                     <<" ">> \o UserName \o DrexelDomain,
                     UserName \o DrexelDomain \o <<".", "c", "o">>,
                     <<"A", "b", "1", "2">> \o DrexelDomain,
                     <<"a", "b">> \o DrexelDomain,
                     <<"c", "d", "3", "4">> \o DrexelDomain},
     hostname     : {<<"h", "o", "s", "t">>},
     ip_address   : {<<"I", "P", " ", "u", "n", "a", "v", "a", "i", "l", "a", "b", "l", "e">>},
     drawn        : {0, 99}]

\* info_widget.py 66-82: the dict info, with the values of the eight KEYS
InfoDict(responses, typed, env) ==
    [key \in Range(KEYS) |->
        CASE key = "first_name"   -> PyStr(Strip(typed.first_name))
          [] key = "last_name"    -> PyStr(Strip(typed.last_name))
          [] key = "drexel_id"    -> PyStr(Strip(typed.drexel_id))
          [] key = "drexel_email" -> PyStr(Strip(typed.drexel_email))
          [] key = "hostname"     -> PyStr(typed.hostname)
          [] key = "ip_address"   -> PyStr(typed.ip_address)
          [] key = "jupyter_user" ->
                IF env = PyNone
                THEN PyStr(<<"N", "o", "t", " ", "o", "n", " ", "J", "u", "p", "y",
                             "t", "e", "r", "H", "u", "b">>)
                ELSE env
          [] key = "seed" ->
                IF "seed" \in DOMAIN responses THEN responses["seed"].v
                ELSE PyInt(typed.drawn)]

\* a variant of FormError for a form without checks
NoFormError(info) == "none"

\* info_widget.py 85-96: the ValueError the checks raise
FormError(info) ==
    IF \E i \in 1..Len(KEYS) : info[KEYS[i]] = PyStr(<<>>)
    THEN "Missing form input"
    ELSE IF ~EmailPatternFullmatch(info["drexel_email"].chars)
    THEN "Invalid email format"
    ELSE IF info["drexel_id"].chars # EmailPrefix(info["drexel_email"].chars)
    THEN "Drexel ID does not match email"
    ELSE "none"

\* info_widget.py 65-105: submit. ensure_responses() comes first; the eight
\* KEYS are written after the last check
SubmitInfo ==
    /\ \E typed \in Forms :
        LET ensured == EnsureResponses(fs[orig_path])
            info    == InfoDict(ensured.data, typed, jhub_user)
        IN  /\ form' = typed
            /\ IF FormError(info) = "none"
               THEN /\ fs' = StoreWrite(fs, UpdateAll(ensured.file, KEYS, info))
                    /\ last_call' = [f |-> "StudentInfoForm.submit", raised |-> FALSE,
                                     before |-> fs[orig_path]]
               ELSE /\ fs' = StoreWrite(fs, ensured.file)
                    /\ last_call' = [f |-> "StudentInfoForm.submit", raised |-> TRUE,
                                     before |-> fs[orig_path]]
    /\ UNCHANGED <<vvars, lvars, wvars, cvars, store_locals, hash_salt, jhub_user,
                   seeds, selections, display>>

NextInfoForm ==
    \/ SubmitInfo

ValidateOff ==
    /\ encrypted_lines = <<>>
    /\ assignment_id = "hw1"
    /\ question_max_scores = <<>>
    /\ free_response_questions = 0
    /\ pc = "off"
    /\ data_ = <<>>
    /\ data_reduced = <<>>
    /\ last_entries = <<>>
    /\ q_entries = <<>>
    /\ max_scores = <<>>
    /\ question_scores = <<>>
    /\ tests = <<>>
    /\ files = {}
    /\ requests = <<>>
    /\ error = "none"

Init == InitValidate /\ StoreOff /\ LoggerOff /\ WidgetIdle /\ CryptoOff /\ NotebookOff

Next == NextValidate

Spec == Init /\ [][Next]_vars

InitStoreSession == ValidateOff /\ InitStore /\ LoggerOff /\ WidgetIdle /\ CryptoOff /\ NotebookOff

SpecStore == InitStoreSession /\ [][NextStore]_vars

InitLoggerSession == ValidateOff /\ StoreOff /\ InitLogger /\ WidgetIdle /\ CryptoOff /\ NotebookOff

SpecLogger == InitLoggerSession /\ [][NextLogger]_vars

InitCryptoSession == ValidateOff /\ StoreOff /\ LoggerOff /\ WidgetIdle /\ InitCrypto /\ NotebookOff

SpecCrypto == InitCryptoSession /\ [][NextCrypto]_vars

NotebookSession == ValidateOff /\ LoggerOff /\ WidgetIdle /\ CryptoOff /\ InitNotebook

SpecInitialize == NotebookSession /\ [][NextInitialize]_vars

SpecSelect == NotebookSession /\ [][NextSelect]_vars

SpecInfoForm == NotebookSession /\ [][NextInfoForm]_vars

(***************************************************************************)
(* Properties of validate_logfile.                                         *)
(***************************************************************************)
\* the lines of the log file that decrypt, in file order
Log ==
    LET Good(line) == line.marker /\ line.valid
        good == SelectSeq(encrypted_lines, Good)
    IN  [i \in 1..Len(good) |-> good[i].clear]

SomeLineFails == \E i \in 1..Len(encrypted_lines) :
    encrypted_lines[i].marker /\ ~encrypted_lines[i].valid

\* the keys q{N}_{M} that occur in log
LoggedKeys(log) == {log[i][1] : i \in {j \in 1..Len(log) : log[j][1].k = "qkey"}}

\* the places of log that hold an entry of key u
PlacesOf(log, u) == {i \in 1..Len(log) : log[i][1] = u}

ValuesOf(log, u) == {log[i][2].n : i \in PlacesOf(log, u)}

\* the positions at which the scores of the run are final
Scored == {"report", "login", "upload", "done"}

Credited(u) == IF u \in DOMAIN max_scores THEN max_scores[u] ELSE 0

UnrubricedQuestions(log) ==
    {u.n : u \in {v \in LoggedKeys(log) : v.n \notin DictKeys(question_max_scores)}}

\* C2: an answer whose question is no key of the rubric does not abort the
\* run: scoring raises no KeyError, and the report of a run that went on has
\* an entry for that question.
C2_RubricMismatchDoesNotAbort ==
    /\ error = "KeyError" => UnrubricedQuestions(Log) = {}
    /\ pc \in {"login", "upload", "done"} =>
          \A n \in UnrubricedQuestions(Log) :
              \E i \in 1..Len(tests) : tests[i].name = QuestionName(n)

\* C3: after a login response other than 200 no upload is sent.
C3_NoUploadAfterFailedLogin ==
    \A i \in 1..Len(requests) :
        (requests[i].url = "login_url" /\ requests[i].status # 200) =>
            \A j \in 1..Len(requests) : requests[j].url # "post_url"

\* C5: when a line with the marker fails to decode or decrypt, the run stops
\* at the decryption: no line is taken over, no file is written and no
\* request is sent.
C5_DecryptFailureAborts ==
    SomeLineFails =>
        /\ pc \in {"decrypt", "aborted"}
        /\ pc = "aborted" => error = "CryptoError"
        /\ data_ = <<>>
        /\ files = {}
        /\ requests = <<>>

\* a log whose last line is damaged and whose other lines are sound
C5_Witness ==
    /\ pc = "aborted"
    /\ Len(encrypted_lines) = 6
    /\ ~encrypted_lines[6].valid
    /\ \A i \in 1..5 : encrypted_lines[i].valid

\* the value of the last info line of four parts for field, <<>> if there is none
ReconstructedValue(log, field) ==
    LET hits == {i \in 1..Len(log) : IsInfoRecord(log[i]) /\ log[i][2] = Word(field)}
    IN  IF hits = {} THEN <<>> ELSE <<log[SetMax(hits)][3]>>

\* the run has not gone beyond the assignment check and has done nothing yet
\* but decrypt and write .output_reduced.log
StoppedAtAssignment ==
    /\ pc \in {"decrypt", "reduce", "check_assignment", "aborted"}
    /\ q_entries = <<>>
    /\ max_scores = <<>>
    /\ \A i \in 1..Len(question_scores) : question_scores[i].val = 0
    /\ tests = <<>>
    /\ files \subseteq {".output_reduced.log"}
    /\ requests = <<>>

\* C6: when the reconstructed assignment differs from assignment_id or is
\* missing, the run stops at the assignment check: nothing is scored,
\* neither info.json nor results.json is written and no request is sent.
C6_AssignmentMismatchAborts ==
    ~StoppedAtAssignment =>
        ReconstructedValue(Log, "assignment") = <<Word(assignment_id)>>

\* a log of another assignment, stopped by the check
C6_Witness ==
    /\ pc = "aborted"
    /\ error = "SystemExit: not the correct assignment"
    /\ ReconstructedValue(Log, "assignment") = <<Word("hw2")>>
    /\ assignment_id = "hw1"

\* field has no info line at all in log
NoInfoLine(log, field) ==
    ~\E i \in 1..Len(log) : log[i][1] = Word("info") /\ log[i][2] = field

\* the run has not gone beyond the check of the student information
StoppedAtStudentInfo ==
    /\ pc \in {"decrypt", "reduce", "check_assignment", "check_info", "aborted"}
    /\ pc = "aborted" => error \in {"CryptoError",
                                    "SystemExit: not the correct assignment",
                                    "SystemExit: submit your student information"}
    /\ Word("start_time") \notin DOMAIN last_entries
    /\ files \subseteq {".output_reduced.log"}
    /\ requests = <<>>

\* C7: when one of drexel_id, first_name, last_name, drexel_email has no info
\* line, the run stops before it parses a timestamp: no start_time, no
\* info.json, no results.json, no request.
C7_MissingFieldAborts ==
    ~StoppedAtStudentInfo =>
        LET log == Log
        IN  \A i \in 1..Len(required_student_info) :
                ~NoInfoLine(log, required_student_info[i])

\* a log of the right assignment without drexel_email, stopped by the check
C7_Witness ==
    /\ pc = "aborted"
    /\ error = "SystemExit: submit your student information"
    /\ NoInfoLine(Log, Word("drexel_email"))
    /\ ~NoInfoLine(Log, Word("drexel_id"))

\* the positions at which last_entries holds the reconstructed fields only
Reconstructed == {"check_assignment", "check_info", "timestamps"}

\* the places of log that hold an info line for field
InfoPlaces(log, field) ==
    {i \in 1..Len(log) : log[i][1] = Word("info") /\ log[i][2] = field}

\* the field names that occur in info lines
InfoFields(log) == {log[i][2] : i \in {j \in 1..Len(log) : log[j][1] = Word("info")}}

\* the value of an info line: its parts between the field name and the time
InfoValue(parts) == SubSeq(parts, 3, Len(parts) - 1)

\* C8 (as stated): every field that occurs in info lines is reconstructed as
\* the value of its last occurrence in file order.
C8_LastOccurrenceWins ==
    pc \in Reconstructed =>
        LET log == Log
        IN  \A f \in InfoFields(log) :
                /\ f \in DOMAIN last_entries
                /\ <<last_entries[f]>> = InfoValue(log[SetMax(InfoPlaces(log, f))])

\* the places of log that hold an info line of exactly four parts for field
RecordPlaces(log, field) == {i \in InfoPlaces(log, field) : Len(log[i]) = 4}

\* C8 (amended): every field that occurs in an info line of exactly four
\* comma-separated parts is reconstructed as the value of the last such line
\* in file order; info lines with another number of parts change nothing, and
\* a field that has only such lines is not reconstructed.
C8_LastRecordWins ==
    pc \in Reconstructed =>
        LET log == Log
        IN  /\ \A f \in InfoFields(log) :
                  IF RecordPlaces(log, f) = {} THEN f \notin DOMAIN last_entries
                  ELSE /\ f \in DOMAIN last_entries
                       /\ last_entries[f] = log[SetMax(RecordPlaces(log, f))][3]
            /\ DOMAIN last_entries \subseteq InfoFields(log)

\* info,assignment,hw1 followed by info,assignment,hw2 yields hw2
C8_Witness ==
    /\ pc = "check_info"
    /\ Len(Log) = 6
    /\ Log[1] = InfoLine("assignment", "hw1", 1)
    /\ Log[Len(Log)] = InfoLine("assignment", "hw2", 1)
    /\ last_entries[Word("assignment")] = Word("hw2")

\* the positions at which q_entries is final
Collapsed == {"score"} \cup Scored

\* the places of q_entries that hold an entry of a question up to the threshold
StructuredPlaces ==
    {i \in 1..Len(q_entries) : q_entries[i][1].n <= free_response_questions}

\* C9 (as stated): for N <= free_response_questions one entry is kept per key,
\* and no entry of that key in the log has a later timestamp.
C9_ChronologicallyLastKept ==
    pc \in Collapsed =>
        LET log == Log
            kept == StructuredPlaces
        IN  \A i \in kept :
                /\ \A j \in kept : q_entries[j][1] = q_entries[i][1] => j = i
                /\ \A p \in PlacesOf(log, q_entries[i][1]) :
                      Last(log[p]).n <= Last(q_entries[i]).n

\* C9 (amended): for N <= free_response_questions one entry is kept per key,
\* and it is the last entry of that key in file order, whatever the
\* timestamps are.
C9_LastInFileKept ==
    pc \in Collapsed =>
        LET log == Log
            kept == StructuredPlaces
        IN  \A i \in kept :
                /\ \A j \in kept : q_entries[j][1] = q_entries[i][1] => j = i
                /\ \E p \in PlacesOf(log, q_entries[i][1]) :
                      /\ log[p] = q_entries[i]
                      /\ \A r \in PlacesOf(log, q_entries[i][1]) :
                            r > p => HasCodeRun(log[r])

\* q1_1 logged at time 2 and then at time 1: the entry of time 1 is kept
C9_Witness ==
    /\ pc = "score"
    /\ free_response_questions = 1
    /\ Len(Log) = 7
    /\ SubSeq(Log, 6, 7) = <<ScoreLine(1, 1, 3, 2), ScoreLine(1, 1, 0, 1)>>
    /\ q_entries = <<ScoreLine(1, 1, 0, 1)>>

(***************************************************************************)
(* Properties of the logger and of the response store.                     *)
(***************************************************************************)
\* C4: telemetry, the pre_run_cell hook, never raises to its caller, whatever
\* the state of the key files is.
C4_TelemetryNeverRaises ==
    outcome.f = "telemetry" => outcome.result = "returned"

\* C21: the encrypted log is append-only. A call of log_encrypted that
\* returns, from telemetry or from log_variable, adds exactly one marked line
\* at the end of .output.log, also for a cleartext of several lines, and the
\* lines that were there stay, unchanged and in their order; a call that
\* raises leaves the file as it was.
C21_LogIsAppendOnly ==
    [][IF outcome'.result = "returned"
       THEN /\ Len(output_log') = Len(output_log) + 1
            /\ SubSeq(output_log', 1, Len(output_log)) = output_log
            /\ HasMarker(Last(output_log'))
       ELSE output_log' = output_log]_<<output_log, outcome>>

C21_Witness ==
    /\ Len(output_log) = 3
    /\ outcome.result = "returned"
    /\ output_log[1].clear \in MultiLineCells
    /\ output_log[2].clear[1] = Word("info")
    /\ output_log[3].clear \in MultiLineCells

\* the object a call of update_responses(key, value) is to store
NewObject ==
    SetItem(IF Parses(before) THEN before.obj ELSE <<>>, arg_key, arg_value)

\* .responses.json is as it was when the call started, or holds the complete
\* text of the previous object ({} when there was none) or of the new object
OldOrNew ==
    \/ fs[orig_path] = before
    \/ /\ fs[orig_path].st = "json"
       /\ fs[orig_path].obj \in {IF Parses(before) THEN before.obj ELSE <<>>, NewObject}

\* C10 (as stated): at every step of update_responses, and so wherever the
\* process stops, .responses.json holds the complete previous JSON object or
\* the complete new one, never a truncated or invalid text.
C10_CrashAtomic ==
    (op = "update" /\ upc # "idle") => OldOrNew

\* C10 (amended): the same, for a call that starts with .responses.json
\* holding a complete JSON object; a call that finds the file missing, empty
\* or invalid goes through ensure_responses, which creates or empties it
\* before it writes {}, and a stop there leaves an empty file.
C10_CrashAtomicFromValidStore ==
    (op = "update" /\ upc # "idle" /\ Parses(before)) => OldOrNew

\* the process stopped between the end of the write to .responses.tmp and
\* the rename, with a store that held an object
C10_Witness ==
    /\ op = "update"
    /\ upc = "crashed"
    /\ crashed_at = "replace"
    /\ before = Json(SetItem(<<>>, "seed", Val(1)))
    /\ fs[temp_path] = Json(NewObject)
    /\ fs[orig_path] = before
    /\ NewObject # before.obj

\* no line of log is an info line or an answer
ZeroRetained(log) == \A i \in 1..Len(log) : ~IsRelevant(log[i])

TimeFields == {Word("start_time"), Word("end_time"), Word("elapsed_minutes")}

\* C12: a log without retained lines ends the run at the check of the
\* assignment: no start, end or elapsed time is set, no info.json, no report,
\* no results.json, no request
C12_ZeroRetainedAborts ==
    (pc \notin {"off", "decrypt", "reduce", "check_assignment"} /\ ZeroRetained(Log)) =>
        /\ pc = "aborted"
        /\ error \in {"CryptoError", "SystemExit: not the correct assignment"}
        /\ (DOMAIN last_entries) \cap TimeFields = {}
        /\ files \cap {"info.json", "results.json"} = {}
        /\ tests = <<>>
        /\ requests = <<>>

C12_Witness ==
    /\ pc = "aborted"
    /\ Len(encrypted_lines) = 3
    /\ Len(Log) = 2
    /\ ZeroRetained(Log)
    /\ error = "SystemExit: not the correct assignment"
    /\ files = {".output_reduced.log"}

\* the run has built the score report
Reported == {"login", "upload", "done"}

\* C13: the report has one entry per key of the rubric, named "Question N",
\* with the rubric's value as max_score, in ascending order of N
C13_ReportPerRubricKeyAscending ==
    pc \in Reported =>
        /\ Len(tests) = Len(question_max_scores)
        /\ \A i \in 1..Len(tests) :
            /\ tests[i].name.n \in DictKeys(question_max_scores)
            /\ tests[i].name = QuestionName(tests[i].name.n)
            /\ tests[i].max_score = DictVal(question_max_scores, tests[i].name.n)
        /\ \A i \in 1..Len(tests), j \in 1..Len(tests) :
            i < j => tests[i].name.n < tests[j].name.n

C13_Witness ==
    /\ pc = "done"
    /\ question_max_scores = UnsortedRubric
    /\ Len(q_entries) = 2
    /\ q_entries[1][1] = QKey(2, 1)
    /\ q_entries[2][1] = QKey(1, 1)
    /\ tests = <<[name |-> QuestionName(1), score |-> 6, max_score |-> 10],
                 [name |-> QuestionName(2), score |-> 5, max_score |-> 5]>>

\* the keys q{N}_{M} of question n that the run kept in q_entries
KeptKeys(n) ==
    {q_entries[i][1] :
        i \in {j \in 1..Len(q_entries) : q_entries[j][1].k = "qkey" /\ q_entries[j][1].n = n}}

\* the value credited to a kept key: the largest of 0 and its kept values
KeptCredit ==
    [u \in UNION {KeptKeys(question_max_scores[i].key) : i \in 1..Len(question_max_scores)} |->
        SetMax({0} \cup {q_entries[i][2].n :
                            i \in {j \in 1..Len(q_entries) : q_entries[j][1] = u}})]

\* C14: the reported score of question N is the sum of the values credited
\* to the kept keys q{N}_{M} of N, and of nothing else
C14_ScoreIsSumOfKeptKeys ==
    pc \in Reported =>
        \A i \in 1..Len(tests) :
            tests[i].score = SetSum(KeptCredit, KeptKeys(tests[i].name.n))

\* C15: a question of the rubric without any entry q{N}_{M} in the log is
\* reported with score 0
C15_UnansweredQuestionScoresZero ==
    pc \in Reported =>
        LET log == Log
        IN  \A i \in 1..Len(question_max_scores) :
                LET n == question_max_scores[i].key
                IN  (\A u \in LoggedKeys(log) : u.n # n) =>
                        \E j \in 1..Len(tests) :
                            tests[j].name = QuestionName(n) /\ tests[j].score = 0

\* the run has set start_time, end_time and elapsed_minutes
Timed == {"collapse", "score", "report", "login", "upload", "done"}

\* the trailing timestamps of the retained lines of log
RetainedTimes(log) ==
    {Last(log[i]).n : i \in {j \in 1..Len(log) : IsRelevant(log[j])}}

\* start_time is the earliest and end_time the latest retained timestamp
StartAndEnd(log) ==
    /\ \A t \in RetainedTimes(log) :
          last_entries[Word("start_time")].n <= t /\ t <= last_entries[Word("end_time")].n
    /\ last_entries[Word("start_time")].n \in RetainedTimes(log)
    /\ last_entries[Word("end_time")].n \in RetainedTimes(log)
    /\ last_entries[Word("start_time")].n <= last_entries[Word("end_time")].n

\* end - start, in seconds
SessionSeconds == last_entries[Word("end_time")].n - last_entries[Word("start_time")].n

\* C16, as stated: start_time and end_time are the least and the greatest
\* timestamp of the retained lines, and elapsed_minutes is exactly
\* (end - start) / 60; elapsed_minutes is held in hundredths of a minute
C16_ElapsedIsExact ==
    pc \in Timed =>
        /\ StartAndEnd(Log)
        /\ 60 * last_entries[Word("elapsed_minutes")].n = 100 * SessionSeconds

\* C16, amended: start_time and end_time are the least and the greatest
\* timestamp of the retained lines, and elapsed_minutes is (end - start) / 60
\* rounded to two decimals: the hundredth nearest to it
C16_ElapsedIsRounded ==
    pc \in Timed =>
        /\ StartAndEnd(Log)
        /\ 60 * last_entries[Word("elapsed_minutes")].n - 100 * SessionSeconds \in -29..29

\* 10:42:30 logged before 10:00:30, the session starting at 10:00:00
C16_Witness ==
    /\ pc = "done"
    /\ Len(Log) = 7
    /\ Last(Log[6]) = Time(2551)
    /\ Last(Log[7]) = Time(31)
    /\ last_entries[Word("start_time")] = Time(1)
    /\ last_entries[Word("end_time")] = Time(2551)
    /\ last_entries[Word("elapsed_minutes")] = Num(4250)

\* the run is over, or has built its report
Settled == Reported \cup {"aborted"}

\* how a run over the same log without its unretained lines ends
VerdictOfRetained ==
    Verdict(ReduceData(Log), assignment_id, question_max_scores, free_response_questions)

\* C17: the lines that are neither info lines nor answers q{N}_{M} do not
\* influence the outcome: the run ends as the run over the log without them
C17_UnretainedLinesDoNotCount ==
    (pc \in Settled /\ ~SomeLineFails) =>
        [error |-> error, tests |-> tests] = VerdictOfRetained

\* the run ends as Verdict says
VerdictAgrees ==
    (pc \in Settled /\ ~SomeLineFails) =>
        [error |-> error, tests |-> tests] =
            Verdict(Log, assignment_id, question_max_scores, free_response_questions)

\* the places of requests that went to url
RequestsTo(url) == {i \in 1..Len(requests) : requests[i].url = url}

\* C18: a run sends at most one login request and at most one upload,
\* whatever the responses are, and the upload only after the login request
C18_NoRetry ==
    /\ Cardinality(RequestsTo("login_url")) <= 1
    /\ Cardinality(RequestsTo("post_url")) <= 1
    /\ RequestsTo("login_url") \cup RequestsTo("post_url") = 1..Len(requests)
    /\ \A p \in RequestsTo("post_url") : \E l \in RequestsTo("login_url") : l < p

C18_Witness ==
    /\ pc = "done"
    /\ requests = <<[url |-> "login_url", status |-> 500],
                    [url |-> "post_url", status |-> 500]>>

\* the field whose absence made the loop of validate.py 90-94 exit
FirstMissingField ==
    required_student_info[
        SetMin({i \in 1..Len(required_student_info) :
                   required_student_info[i] \notin DOMAIN last_entries})]

\* C20: an abort for a missing identity field reports a diagnostic that
\* names the missing field
C20_DiagnosticNamesMissingField ==
    pc = "aborted" =>
        /\ (/\ error = "SystemExit: not the correct assignment"
            /\ Word("assignment") \notin DOMAIN last_entries) =>
               "assignment" \in DiagnosticWords(error)
        /\ error = "SystemExit: submit your student information" =>
               FirstMissingField.s \in DiagnosticWords(error)

\* C23: for N <= free_response_questions every key q{N}_{M} of the log has
\* its last entry among the entries that are scored, whatever sub-indices M
\* occur in the log (q1_1 and q1_3 without q1_2 as well): no key is dropped
C23_NoLoggedKeyDropped ==
    pc \in Collapsed =>
        LET log == Log
        IN  \A u \in LoggedKeys(log) :
                u.n <= free_response_questions =>
                    \E i \in 1..Len(q_entries) :
                        q_entries[i] = log[SetMax(PlacesOf(log, u))]

\* the places of log that hold an info line of more or of fewer than four parts
OddInfoPlaces(log) ==
    {i \in 1..Len(log) : log[i][1] = Word("info") /\ Len(log[i]) >= 2 /\ Len(log[i]) # 4}

\* C27: an info line of five or more parts (a value that holds a comma) or of
\* fewer than four parts does not set the field it names, which keeps the
\* value of the last line of four parts, or stays unset; its last part still
\* counts as a timestamp between start_time and end_time
C27_OddInfoLineOnlyCountsForTime ==
    pc \in Timed =>
        LET log == Log
        IN  \A i \in OddInfoPlaces(log) :
                /\ IF RecordPlaces(log, log[i][2]) = {}
                   THEN log[i][2] \notin DOMAIN last_entries
                   ELSE last_entries[log[i][2]] =
                            log[SetMax(RecordPlaces(log, log[i][2]))][3]
                /\ last_entries[Word("start_time")].n <= Last(log[i]).n
                /\ Last(log[i]).n <= last_entries[Word("end_time")].n

C27_Witness ==
    /\ pc = "done"
    /\ Len(Log) = 6
    /\ Log[6] = <<Word("info"), Word("last_name"), Word("Ng"), Word("Jr"), Time(2)>>
    /\ last_entries[Word("last_name")] = Word("Lee")
    /\ last_entries[Word("start_time")] = Time(1)
    /\ last_entries[Word("end_time")] = Time(2)

\* C30: the rubric does not bound a reported score. The score of question N
\* is the sum of the values credited to the keys of N, each of them 0 or
\* more, and 0 for a key whose entries are all below 0; the sum is reported
\* as it is, above max_score as well, and is never below 0
C30_ScoreIsUnboundedSumNeverNegative ==
    pc \in Reported =>
        LET log == Log
        IN  /\ \A i \in 1..Len(tests) :
                  /\ tests[i].score =
                        SetSum(max_scores,
                               {u \in DOMAIN max_scores : u.n = tests[i].name.n})
                  /\ tests[i].score >= 0
            /\ \A u \in DOMAIN max_scores :
                  /\ max_scores[u] >= 0
                  /\ (\A v \in ValuesOf(log, u) : v < 0) => max_scores[u] = 0

\* q1_1 worth 12 under a rubric of 10, q1_2 answered with -2 and -1
C30_Witness ==
    /\ pc = "done"
    /\ Len(Log) = 8
    /\ SubSeq(Log, 6, 8) = <<ScoreLine(1, 1, 12, 1), ScoreLine(1, 2, -2, 1),
                             ScoreLine(1, 2, -1, 2)>>
    /\ tests = <<[name |-> QuestionName(1), score |-> 12, max_score |-> 10]>>
    /\ max_scores[QKey(1, 2)] = 0

(***************************************************************************)
(* Properties of the way of an event through the log.                      *)
(***************************************************************************)
\* the pairing of encrypt_to_b64 itself: client private key, server public key
WriterKeys == [private |-> PrivateKey("client"), public |-> PublicKey("server")]

NoSeedBefore == ~Parses(before) \/ "seed" \notin DOMAIN before.obj

\* the constructor has raised, or has not come to the seed yet, or the
\* process has stopped on the way
FailsFast ==
    /\ ~shuffled
    /\ ~layout
    /\ upc # "widget_build"
    /\ (upc = "idle" /\ crashed_at = "none") => returned.raised

\* C19, as stated: without a seed in the store the constructor raises before
\* any shuffle and any layout, and .responses.json is left as it was
C19_FailsFastStoreUntouched ==
    (op = "widget" /\ NoSeedBefore) =>
        /\ FailsFast
        /\ fs[orig_path] = before

\* C19, amended: without a seed in the store the constructor raises before
\* any shuffle and any layout; a store that held a JSON object is left as it
\* was, and a missing or unreadable .responses.json is set up as the empty
\* object by ensure_responses, so that no key is added in either case
C19_FailsFastNoKeyAdded ==
    (op = "widget" /\ NoSeedBefore) =>
        /\ FailsFast
        /\ Parses(before) => fs[orig_path] = before
        /\ ~Parses(before) => fs[orig_path] \in {before, Empty, Json(<<>>)}

\* a store with an answer and no seed
C19_Witness ==
    /\ op = "widget"
    /\ widget = "ReadingPython"
    /\ upc = "idle"
    /\ crashed_at = "none"
    /\ returned.raised
    /\ before = Json(SetItem(<<>>, "q1_1", Val(2)))
    /\ fs[orig_path] = before
    /\ ~shuffled
    /\ ~layout

(***************************************************************************)
(* Properties of single calls of ensure_responses and update_responses.    *)
(***************************************************************************)
\* a call of f has come to its end in a process that did not stop
Ended(f) == op = f /\ upc = "idle" /\ crashed_at = "none"

C25_WitnessTwice ==
    /\ Ended("ensure")
    /\ before = Json([k \in {"seed"} |-> Val(2)])
    /\ fs[orig_path] = before
    /\ returned.obj = before.obj

\* C26 (as stated): update_responses with a value that json.dump cannot
\* write raises, leaves no .responses.tmp and leaves .responses.json with the
\* content it had before the call
C26_FailedUpdateLeavesNoTrace ==
    (Ended("update") /\ ~arg_value.ser) =>
        /\ returned.raised
        /\ fs[temp_path] = Absent
        /\ fs[orig_path] = before

\* what a failing call does leave behind: the call raises. After a TypeError .responses.tmp does not
\* exist; after a ValueError (a circular value) no clause removes it and it
\* stays with the text written so far. A .responses.json that held a JSON
\* object has the content it had; one that was absent, empty or no JSON
\* holds {}, written by ensure_responses.
C26_FailedUpdateKeepsValidStore ==
    (Ended("update") /\ ~arg_value.ser) =>
        /\ returned.raised
        /\ IF arg_value = Circular
           THEN fs[temp_path].st = "truncated"
           ELSE fs[temp_path] = Absent
        /\ IF before.st = "json"
           THEN fs[orig_path] = before
           ELSE fs[orig_path] = Json(<<>>)

C26_Witness ==
    /\ Ended("update")
    /\ arg_value = NotSerializable
    /\ returned.raised
    /\ before = Json([k \in {"seed"} |-> Val(1)])
    /\ fs[orig_path] = before
    /\ fs[temp_path] = Absent

(***************************************************************************)
(* Properties of the notebook handlers.                                    *)
(***************************************************************************)
\* C22: the seed initialize_assignment stores is an integer of 0..999 that
\* depends on the JupyterHub user name only: any two initializations for
\* the same user, in the same or in different kernel processes, store the
\* same seed
C22_SeedDeterministicPerStudent ==
    \A i, j \in 1..Len(seeds) :
        /\ seeds[i] \in 0..999
        /\ seeds[i] = seeds[j]

\* every stored seed is in 0..999 and is the one the store holds
C22_SeedInRange ==
    (last_call.f = "initialize_assignment" /\ seeds # <<>>) =>
        /\ Last(seeds) \in 0..999
        /\ fs[orig_path].obj["seed"] = Val(PyInt(Last(seeds)))

\* the stored object, {} for a file that is absent or no JSON
StoredObject(content) == IF content.st = "json" THEN content.obj ELSE <<>>

\* two stored objects hold the same keys with the same values
SameObject(a, b) == DOMAIN a = DOMAIN b /\ \A key \in DOMAIN a : a[key] = b[key]

\* C28: SelectQuestion.submit writes all answers or none. With a widget
\* whose value is None it raises and the store is as it was; otherwise every
\* key of keys holds the value of the widget at its index in the order of
\* construction, whatever the order of the layout is, and no other key
\* changes
C28_SubmitAllOrNothingByOriginalIndex ==
    last_call.f = "SelectQuestion.submit" =>
        IF \E i \in 1..Len(selections) : selections[i] = PyNone
        THEN /\ last_call.raised
             /\ fs[orig_path] = last_call.before
        ELSE /\ ~last_call.raised
             /\ fs[orig_path].st = "json"
             /\ \A i \in 1..Len(SelectKeys) :
                   fs[orig_path].obj[SelectKeys[i]] = Val(selections[i])
             /\ DOMAIN fs[orig_path].obj =
                   (DOMAIN StoredObject(last_call.before)) \cup Range(SelectKeys)
             /\ \A key \in (DOMAIN StoredObject(last_call.before)) \ Range(SelectKeys) :
                   fs[orig_path].obj[key] = last_call.before.obj[key]

\* seed 7: the layout shows the second widget first; A is picked in the first
\* widget and B in the second
C28_Witness ==
    /\ last_call.f = "SelectQuestion.submit"
    /\ ~last_call.raised
    /\ display = <<<<2, 2>>, <<1, 1>>>>
    /\ selections = <<PyStr(<<"A">>), PyStr(<<"B">>)>>
    /\ fs[orig_path].obj["q1_1"] = Val(PyStr(<<"A">>))
    /\ fs[orig_path].obj["q1_2"] = Val(PyStr(<<"B">>))
    /\ fs[orig_path].obj["seed"] = Val(PyInt(7))

\* one widget is left at None: the call raises and nothing is written
C28_WitnessRaises ==
    /\ last_call.f = "SelectQuestion.submit"
    /\ last_call.raised
    /\ selections = <<PyNone, PyStr(<<"B">>)>>
    /\ fs[orig_path] = Json([k \in {"seed"} |-> Val(PyInt(7))])

\* the values submit has gathered for the eight KEYS
Gathered == InfoDict(StoredObject(last_call.before), form, jhub_user)

\* every check of the form passes: no value is "", drexel_email matches the
\* pattern in full, drexel_id is what stands before the @
ChecksPass(info) ==
    /\ \A i \in 1..Len(KEYS) : ~(info[KEYS[i]].k = "str" /\ info[KEYS[i]].chars = <<>>)
    /\ EmailPatternFullmatch(info["drexel_email"].chars)
    /\ info["drexel_id"].chars = EmailPrefix(info["drexel_email"].chars)

\* C29: StudentInfoForm.submit writes the identity only when every check
\* passes. When a check fails, no key of the store is added, removed or
\* changed; when all pass, the eight KEYS hold the gathered values, a seed
\* that was in the store keeps its value, and no other key changes
C29_IdentityWrittenOnlyWhenValid ==
    last_call.f = "StudentInfoForm.submit" =>
        LET was == StoredObject(last_call.before)
            now == StoredObject(fs[orig_path])
        IN  IF ChecksPass(Gathered)
            THEN /\ ~last_call.raised
                 /\ DOMAIN now = (DOMAIN was) \cup Range(KEYS)
                 /\ \A key \in Range(KEYS) : now[key] = Val(Gathered[key])
                 /\ "seed" \in DOMAIN was => now["seed"] = was["seed"]
                 /\ \A key \in (DOMAIN was) \ Range(KEYS) : now[key] = was[key]
            ELSE /\ last_call.raised
                 /\ SameObject(now, was)

\* a valid form, typed with blanks around it, on a store with seed 7 and an
\* answer
C29_Witness ==
    /\ last_call.f = "StudentInfoForm.submit"
    /\ ~last_call.raised
    /\ last_call.before.st = "json"
    /\ DOMAIN last_call.before.obj = {"seed", "q1_1"}
    /\ form.drexel_id = UserName \o <<" ">>
    /\ form.drexel_email = <<" ">> \o UserName \o DrexelDomain
    /\ form.drawn = 99
    /\ fs[orig_path].obj["seed"] = Val(PyInt(7))
    /\ fs[orig_path].obj["drexel_id"] = Val(PyStr(UserName))
    /\ fs[orig_path].obj["first_name"] = Val(PyStr(<<"A", "d", "a">>))
    /\ fs[orig_path].obj["q1_1"] = Val(PyStr(<<"A">>))

\* the id does not match the email: nothing is written
C29_WitnessRejected ==
    /\ last_call.f = "StudentInfoForm.submit"
    /\ last_call.raised
    /\ form.first_name = <<" ", "A", "d", "a">>
    /\ form.drexel_id = <<"c", "d", "3", "4">>
    /\ form.drexel_email = UserName \o DrexelDomain
    /\ jhub_user = PyStr(UserName)
    /\ fs[orig_path] = Json([k \in {"seed"} |-> Val(PyInt(7))])

====
